---- MODULE Spec2Model ----
(***************************************************************************)
(* Model of the ACP simulation core (package acp_simulation):              *)
(*   environment/network.py   NetworkEnvironment (step protocol)           *)
(*   agents/attacker.py       CognitiveAttacker / ConfigurableAttacker     *)
(*   agents/defender.py       PessimisticDefender / OptimisticACPDefender  *)
(*   simulation/runner.py     run_single_episode                           *)
(*                                                                         *)
(* Every draw from the random generator (np.random.random, choice, beta,   *)
(* uniform) is a nondeterministic choice over the values the draw can      *)
(* return.  Floats are fixed-point integers: rewards in tenths,            *)
(* vulnerabilities in eighths, confidences in hundredths.                  *)
(***************************************************************************)
EXTENDS Integers, Sequences, FiniteSets, TLC

VARIABLES
    mode,                   \* which entry point drives the objects
    pc,                     \* position of the caller
    script,                 \* the step() calls a direct caller still makes
    \* ---- NetworkEnvironment
    network,                \* [num_nodes, edges]
    node_states,            \* node -> NodeState
    vulnerabilities,        \* node -> 0..VulnScale
    current_time,
    metrics,                \* [cognitive_latency_exploitations, acp_deceptions, expensive_actions]
    \* ---- attacker
    learning_rate,          \* ConfigurableAttacker.learning_rate (hundredths)
    known_nodes,
    compromised_nodes,
    memory,                 \* sequence of Instance
    overall_confidence,
    learning_history,
    \* ---- defender
    use_acp,                \* TRUE: OptimisticACPDefender, FALSE: PessimisticDefender
    acp_strength,
    defender_node_states,   \* the defender object's own node_states
    roll,                   \* the arm of select_action its last draws chose, 0 before
    action_history,
    deception_attempts,
    deception_successes,
    deception_history,
    \* ---- run_single_episode locals
    max_steps_per_episode,
    step_count,
    episode_reward,
    actions,
    rewards_per_step,
    attacker_confidence_trajectory,
    \* ---- SimulationConfig object and run_experiment / run_experiment_parallel
    config,                 \* the SimulationConfig object, NoConfig before one exists
    np_random_state,        \* process -> state of its global random generators
    episode_id,             \* loop variable of run_experiment
    acp_results,
    traditional_results,
    pool,                   \* multiprocessing.Pool: [tasks, running, results, completed]
    \* ---- locals and return value of the last call
    last                    \* record of the last step / learn / deploy call

envVars == <<network, node_states, vulnerabilities, current_time, metrics>>
attVars == <<learning_rate, known_nodes, compromised_nodes, memory,
             overall_confidence, learning_history>>
defVars == <<use_acp, acp_strength, defender_node_states, roll, action_history,
             deception_attempts, deception_successes, deception_history>>
runVars == <<max_steps_per_episode, step_count, episode_reward, actions,
             rewards_per_step, attacker_confidence_trajectory>>
expVars == <<config, np_random_state, episode_id, acp_results, traditional_results,
            pool>>
vars == <<mode, pc, script, envVars, attVars, defVars, runVars, expVars, last>>

----------------------------------------------------------------------------
(* Enumerations (core/enums.py) *)

AttackerActions == {"SCAN", "EXPLOIT", "PROPAGATE"}
DefenderActions == {"MONITOR", "PATCH", "ISOLATE", "DEPLOY_HONEYPOT",
                    "ACP_DECEPTION", "RESTORE_NODE"}
ActionType == AttackerActions \cup DefenderActions
NodeState == {"CLEAN", "COMPROMISED", "HONEYPOT", "PATCHED", "ISOLATED"}

(* Fixed-point units; rewards and costs are in tenths *)
VulnScale == 8          \* vulnerability 1.0
ConfScale == 100        \* confidence 1.0

(* NetworkEnvironment.action_costs, in tenths *)
action_costs ==
    [a \in ActionType |->
        CASE a = "SCAN" -> 5
          [] a = "EXPLOIT" -> 20
          [] a = "PROPAGATE" -> 10
          [] a = "MONITOR" -> 1
          [] a = "PATCH" -> 15
          [] a = "ISOLATE" -> 30
          [] a = "DEPLOY_HONEYPOT" -> 20
          [] a = "ACP_DECEPTION" -> 10
          [] a = "RESTORE_NODE" -> 60]

----------------------------------------------------------------------------
(* Generic helpers *)

Min(a, b) == IF a < b THEN a ELSE b
Max(a, b) == IF a > b THEN a ELSE b

RECURSIVE SumSeq(_)
SumSeq(s) == IF s = <<>> THEN 0 ELSE Head(s) + SumSeq(Tail(s))

RECURSIVE SortedList(_)
\* list(<set of small ints>): CPython iterates such a set in ascending order
SortedList(S) ==
    IF S = {} THEN <<>>
    ELSE LET m == CHOOSE x \in S : \A y \in S : x <= y
         IN <<m>> \o SortedList(S \ {m})

Prefix(s, k) == SubSeq(s, 1, Min(k, Len(s)))
Suffix(s, k) == SubSeq(s, Max(1, Len(s) - k + 1), Len(s))
Range(s) == {s[i] : i \in 1..Len(s)}

\* the outcomes of `np.random.random() < p` for a probability p out of `scale`
Coin(p, scale) ==
    {b \in BOOLEAN : (b => p > 0) /\ (~b => p < scale)}

----------------------------------------------------------------------------
(* Network topologies handed to an episode *)

Nodes(g) == 0 .. (g.num_nodes - 1)
\* a neighbourhood that is every other node of the network
NeighborsAnyNode(g, v) == Nodes(g) \ {v}

Neighbors(g, v) == {w \in Nodes(g) : {v, w} \in g.edges}

Path4 == [num_nodes |-> 4, edges |-> {{0, 1}, {1, 2}, {2, 3}}]
Tree6 == [num_nodes |-> 6,
          edges |-> {{0, 1}, {0, 2}, {1, 3}, {1, 4}, {2, 5}}]

\* np.random.beta(2, 5) per node: values strictly inside (0,1), in eighths
VulnSamples == {2, 6}

\* the per-node samples drawn by reset(), restricted to two profiles
VulnProfiles(g) ==
    { [n \in Nodes(g) |-> IF n % 2 = 0 THEN 6 ELSE 2],
      [n \in Nodes(g) |-> IF n % 2 = 0 THEN 2 ELSE 6] }

----------------------------------------------------------------------------
(* NetworkEnvironment *)

CountState(ns, s) == Cardinality({n \in DOMAIN ns : ns[n] = s})

\* _get_state
GetState(ns, t) ==
    LET n == Cardinality(DOMAIN ns)
        c == CountState(ns, "COMPROMISED")
        k == CountState(ns, "CLEAN")
    IN [compromised_count |-> c,
        clean_count |-> k,
        alert_level |-> (c * 100) \div n,
        network_health |-> (k * 100) \div n,
        time |-> t]

TimeLimit == 50

\* a termination that already fires when the time limit is reached
CheckTerminationAtLimit(ns, t) ==
    \/ CountState(ns, "COMPROMISED") * 10 > Cardinality(DOMAIN ns) * 7
    \/ t >= TimeLimit

\* _check_termination
CheckTermination(ns, t) ==
    \/ CountState(ns, "COMPROMISED") * 10 > Cardinality(DOMAIN ns) * 7
    \/ t > TimeLimit

\* a set assignment in place of set.add
AddNodeReplacing(S, n) == {n}

\* set.add(n)
AddNode(S, n) == S \cup {n}

NoOutcome == [success |-> FALSE, reward |-> 0, new_nodes |-> {}]

\* _execute_attacker_action: the set of possible results
\* an Exploit that may pick any Clean node of the network
ExploitableAnyNode(ns, known) == {n \in DOMAIN ns : ns[n] = "CLEAN"}

\* EXPLOIT: the known nodes whose state is CLEAN
Exploitable(ns, known) == {n \in known : ns[n] = "CLEAN"}

\* a Propagate that does not look at the state of the neighbour
PropagateTargetsAnyState(g, ns, comp, source) ==
    {n \in Neighbors(g, source) : n \notin comp}

\* PROPAGATE: the CLEAN neighbours of source not yet in compromised_nodes
PropagateTargets(g, ns, comp, source) ==
    {n \in Neighbors(g, source) : n \notin comp /\ ns[n] = "CLEAN"}

ExecuteAttackerAction(action, g, ns, vul, known, comp) ==
    LET unchanged(o) == [node_states |-> ns, known_nodes |-> known,
                         compromised_nodes |-> comp, outcome |-> o,
                         target |-> {}]
    IN
    CASE action = "SCAN" ->
           IF known # {}
           THEN UNION { LET new_nodes == Neighbors(g, current_node) \ known
                        IN IF new_nodes # {}
                           THEN { [node_states |-> ns,
                                   known_nodes |-> AddNode(known, discovered),
                                   compromised_nodes |-> comp,
                                   outcome |-> [success |-> TRUE, reward |-> 20,
                                                new_nodes |-> {discovered}],
                                   target |-> {}]
                                  : discovered \in new_nodes }
                           ELSE { unchanged(NoOutcome) }
                        : current_node \in known }
           ELSE { [node_states |-> ns,
                   known_nodes |-> AddNode(known, start_node),
                   compromised_nodes |-> comp,
                   outcome |-> [success |-> TRUE, reward |-> 20,
                                new_nodes |-> {start_node}],
                   target |-> {}]
                  : start_node \in Nodes(g) }
      [] action = "EXPLOIT" ->
           LET exploitable == Exploitable(ns, known)
           IN IF exploitable # {}
              THEN UNION { { IF hit
                             THEN [node_states |-> [ns EXCEPT ![target] = "COMPROMISED"],
                                   known_nodes |-> known,
                                   compromised_nodes |-> AddNode(comp, target),
                                   outcome |-> [success |-> TRUE, reward |-> 100,
                                                new_nodes |-> {}],
                                   target |-> {target}]
                             ELSE unchanged([success |-> FALSE, reward |-> -10,
                                             new_nodes |-> {}])
                             : hit \in Coin(vul[target], VulnScale) }
                           : target \in exploitable }
              ELSE { unchanged(NoOutcome) }
      [] action = "PROPAGATE" ->
           IF comp # {}
           THEN UNION { LET targets == PropagateTargets(g, ns, comp, source)
                        IN IF targets # {}
                           THEN UNION { { IF hit
                                          THEN [node_states |-> [ns EXCEPT ![target] = "COMPROMISED"],
                                                known_nodes |-> AddNode(known, target),
                                                compromised_nodes |-> AddNode(comp, target),
                                                outcome |-> [success |-> TRUE, reward |-> 50,
                                                             new_nodes |-> {target}],
                                                target |-> {target}]
                                          ELSE unchanged(NoOutcome)
                                          : hit \in Coin(6, 10) }
                                        : target \in targets }
                           ELSE { unchanged(NoOutcome) }
                        : source \in comp }
           ELSE { unchanged(NoOutcome) }
      [] OTHER -> { unchanged(NoOutcome) }

\* a patch that scales the vulnerability up
PatchedVulnerabilityDoubled(v) == v * 2

\* PATCH: self.vulnerabilities[target] *= 0.5
PatchedVulnerability(v) == v \div 2

\* a restore that takes every Compromised node
RestoreCountAll(k) == k

\* restore_count of the RESTORE_NODE branch, for k Compromised nodes
RestoreCount(k) == Min(3, k)

\* a defender whose Patch takes any Clean node and whose Isolate falls back
\* to a Clean node
ExecuteDefenderActionEager(action, ns, vul) ==
    LET fail == [node_states |-> ns, vulnerabilities |-> vul,
                 outcome |-> [success |-> FALSE, restored_count |-> 0,
                              deception_results |-> << >>],
                 target |-> {}]
        ok(ns2, vul2, tg) ==
               [node_states |-> ns2, vulnerabilities |-> vul2,
                outcome |-> [success |-> TRUE, restored_count |-> 0,
                             deception_results |-> << >>],
                target |-> tg]
        clean_nodes == {n \in DOMAIN ns : ns[n] = "CLEAN"}
        compromised == {n \in DOMAIN ns : ns[n] = "COMPROMISED"}
    IN
    CASE action = "MONITOR" -> { ok(ns, vul, {}) }
      [] action = "PATCH" ->
           IF clean_nodes # {}
           THEN { ok([ns EXCEPT ![target] = "PATCHED"],
                     [vul EXCEPT ![target] = PatchedVulnerability(vul[target])],
                     {target}) : target \in clean_nodes }
           ELSE { fail }
      [] action = "ISOLATE" ->
           LET candidates == IF compromised # {} THEN compromised ELSE clean_nodes
           IN IF candidates # {}
              THEN { ok([ns EXCEPT ![target] = "ISOLATED"], vul, {target})
                     : target \in candidates }
              ELSE { fail }
      [] action = "DEPLOY_HONEYPOT" ->
           IF clean_nodes # {}
           THEN { ok([ns EXCEPT ![target] = "HONEYPOT"], vul, {target})
                  : target \in clean_nodes }
           ELSE { fail }
      [] OTHER -> { fail }

\* _execute_defender_action: the set of possible results
ExecuteDefenderAction(action, ns, vul) ==
    LET fail == [node_states |-> ns, vulnerabilities |-> vul,
                 outcome |-> [success |-> FALSE, restored_count |-> 0,
                              deception_results |-> << >>],
                 target |-> {}]
        ok(ns2, vul2, tg, rc) ==
               [node_states |-> ns2, vulnerabilities |-> vul2,
                outcome |-> [success |-> TRUE, restored_count |-> rc,
                             deception_results |-> << >>],
                target |-> tg]
    IN
    CASE action = "MONITOR" -> { ok(ns, vul, {}, 0) }
      [] action = "PATCH" ->
           LET vulnerable_nodes == {n \in DOMAIN vul :
                                      2 * vul[n] > VulnScale /\ ns[n] = "CLEAN"}
           IN IF vulnerable_nodes # {}
              THEN { ok([ns EXCEPT ![target] = "PATCHED"],
                        [vul EXCEPT ![target] = PatchedVulnerability(vul[target])],
                        {target}, 0) : target \in vulnerable_nodes }
              ELSE { fail }
      [] action = "ISOLATE" ->
           LET compromised == {n \in DOMAIN ns : ns[n] = "COMPROMISED"}
           IN IF compromised # {}
              THEN { ok([ns EXCEPT ![target] = "ISOLATED"], vul, {target}, 0)
                     : target \in compromised }
              ELSE { fail }
      [] action = "DEPLOY_HONEYPOT" ->
           LET clean_nodes == {n \in DOMAIN ns : ns[n] = "CLEAN"}
           IN IF clean_nodes # {}
              THEN { ok([ns EXCEPT ![target] = "HONEYPOT"], vul, {target}, 0)
                     : target \in clean_nodes }
              ELSE { fail }
      [] action = "RESTORE_NODE" ->
           LET compromised == SortedList({n \in DOMAIN ns : ns[n] = "COMPROMISED"})
           IN IF compromised # <<>>
              THEN LET restore_count == RestoreCount(Len(compromised))
                       restored == Range(Prefix(compromised, restore_count))
                   IN { ok([n \in DOMAIN ns |-> IF n \in restored THEN "CLEAN" ELSE ns[n]],
                           [n \in DOMAIN vul |-> IF n \in restored THEN fresh[n] ELSE vul[n]],
                           restored, restore_count)
                        : fresh \in [restored -> VulnSamples] }
              ELSE { fail }
      [] OTHER -> { fail }

----------------------------------------------------------------------------
(* CognitiveAttacker / ConfigurableAttacker (agents/attacker.py) *)

MemoryCap == 150
MemoryKeep == 100
RecentWindow == 20
DecayRate == 8          \* decay_rate 0.8, in tenths

RECURSIVE FloorLog2(_)
FloorLog2(n) == IF n < 2 THEN 0 ELSE 1 + FloorLog2(n \div 2)

RECURSIVE Pow2(_)
Pow2(k) == IF k = 0 THEN 1 ELSE 2 * Pow2(k - 1)

RECURSIVE FracBits(_, _)
\* the next i binary digits of log2(y / 4096), for 4096 <= y < 8192
FracBits(y, i) ==
    IF i = 0 THEN 0
    ELSE LET z == (y * y) \div 4096
         IN IF z >= 8192 THEN Pow2(i - 1) + FracBits(z \div 2, i - 1)
                         ELSE FracBits(z, i - 1)

\* np.log(n) for an integer n >= 1, in units of 1/1024
LnFix(n) ==
    LET k == FloorLog2(n)
        log2 == k * 1024 + FracBits((n * 4096) \div Pow2(k), 10)
    IN (log2 * 693) \div 1000

\* -np.log(max(time_diff ** (-decay_rate), 1e-10)), in units of 1/1024
\* (ln(1e10) = 23.026 is the floor the clamp puts on the logarithm)
BaseActivationMagnitude(time_diff) ==
    Min((DecayRate * LnFix(time_diff)) \div 10, 23578)

\* activation(): the noise term self.noise * N(0,1) is taken at its mean, 0
Activation(inst, now) ==
    LET time_diff == now - inst.timestamp
    IN IF time_diff <= 0 THEN 0
       ELSE -((BaseActivationMagnitude(time_diff) * inst.confidence) \div ConfScale)

\* learn(): activation_potential, the sort key of the pruning
ActivationPotential(inst, now) ==
    -(((-Activation(inst, now)) * inst.confidence) \div ConfScale)

\* position of element i after a stable descending sort by keys
SortedPosition(keys, i) ==
    1 + Cardinality({j \in 1..Len(keys) :
                        keys[j] > keys[i] \/ (keys[j] = keys[i] /\ j < i)})

\* list.sort(key=activation_potential, reverse=True): stable, descending;
\* the key of every instance is computed once
SortByPotential(mem, now) ==
    LET keys == [i \in 1..Len(mem) |-> ActivationPotential(mem[i], now)] \o << >>
        positions == [i \in 1..Len(mem) |-> SortedPosition(keys, i)] \o << >>
    IN [r \in 1..Len(mem) |-> mem[CHOOSE i \in 1..Len(mem) : positions[i] = r]]

\* the pruning test of learn()
NeedsPruning(mem) == Len(mem) > MemoryCap

\* a pruning that sorts but drops the truncated list
PruneWithoutTruncation(mem, now) == SortByPotential(mem, now)

\* the pruning of learn()
Prune(mem, now) == SubSeq(SortByPotential(mem, now), 1, MemoryKeep)

\* a moving average over the oldest instances, memory[:20]
UpdateConfidenceOldest(oc, mem) ==
    LET recent == Prefix(mem, RecentWindow)
        recent_confidences == [i \in 1..Len(recent) |-> recent[i].confidence]
        avg_confidence == SumSeq(recent_confidences) \div Len(recent)
    IN (9 * oc + avg_confidence) \div 10

\* the exponential moving average of learn(), overall_confidence update
UpdateConfidence(oc, mem) ==
    LET recent == Suffix(mem, RecentWindow)
        recent_confidences == [i \in 1..Len(recent) |-> recent[i].confidence]
        avg_confidence == SumSeq(recent_confidences) \div Len(recent)
    IN (9 * oc + avg_confidence) \div 10

\* a memory that holds the latest instance only
RememberLatest(mem, instance) == <<instance>>

\* learn(): self.memory.append(instance)
Remember(mem, instance) == Append(mem, instance)

\* CognitiveAttacker.learn: the attacker fields after the call
CognitiveLearn(mem, oc, lh, situation, action, outcome, timestamp, confidence) ==
    LET instance == [situation |-> situation, action |-> action,
                     outcome |-> outcome, timestamp |-> timestamp,
                     confidence |-> confidence]
        mem1 == Remember(mem, instance)
    IN [memory |-> IF NeedsPruning(mem1) THEN Prune(mem1, timestamp) ELSE mem1,
        at_append |-> Len(mem1),
        pruned |-> NeedsPruning(mem1),
        overall_confidence |-> UpdateConfidence(oc, mem1),
        learning_history |-> Append(lh, [timestamp |-> timestamp, action |-> action,
                                         outcome |-> outcome, confidence |-> confidence])]

\* ConfigurableAttacker.learn
ConfigurableLearn(lr, mem, oc, lh, situation, action, outcome, timestamp, confidence) ==
    LET adjusted_confidence == (confidence * lr) \div ConfScale
    IN CognitiveLearn(mem, oc, lh, situation, action, outcome, timestamp,
                      adjusted_confidence)

\* run_single_episode builds a CognitiveAttacker for learning_rate 1.0 and a
\* ConfigurableAttacker otherwise; learn() of the attacker that was built
AttackerLearn(lr, mem, oc, lh, situation, action, outcome, timestamp, confidence) ==
    IF lr = ConfScale
    THEN CognitiveLearn(mem, oc, lh, situation, action, outcome, timestamp, confidence)
    ELSE ConfigurableLearn(lr, mem, oc, lh, situation, action, outcome, timestamp,
                           confidence)

\* _encode_situation, read from the attacker's sets at the time of the call
EncodeSituation(known, comp, state) ==
    <<Cardinality(known), Cardinality(comp), state.alert_level, state.time \div 10>>

\* a select_action that makes the exploration draw before it looks at the
\* memory
AttackerSelectActionExploring(mem) == AttackerActions

\* CognitiveAttacker.select_action: the actions it can return.  With memory,
\* the 10% exploration draw replaces the best action by any of the three.
AttackerSelectAction(mem) ==
    IF mem = <<>> THEN {"SCAN"} ELSE AttackerActions

\* np.random.uniform(0.3, 0.5) of the poisoned learning step, in hundredths
PoisonedConfidences == {30, 50}

----------------------------------------------------------------------------
(* Defenders (agents/defender.py, agents/base.py) *)

\* the arms of the if / elif chain of a select_action, in source order
DefenderArms == 1..4

\* a pessimistic select_action whose second tier deploys a honeypot
PessimisticArmHoneypot(dns, arm) ==
    LET compromised == {n \in DOMAIN dns : dns[n] = "COMPROMISED"}
    IN CASE arm = 1 -> {"RESTORE_NODE"}
         [] arm = 2 -> IF compromised # {} THEN {"ISOLATE"} ELSE {"DEPLOY_HONEYPOT"}
         [] arm = 3 -> {"PATCH"}
         [] arm = 4 -> {"MONITOR"}

\* PessimisticDefender.select_action: the action of the tier the roll falls
\* in (1: roll < 0.4185, 2: the Isolate-or-Patch tier, 3: Patch, 4: Monitor)
PessimisticArm(dns, arm) ==
    LET compromised == {n \in DOMAIN dns : dns[n] = "COMPROMISED"}
    IN CASE arm = 1 -> {"RESTORE_NODE"}
         [] arm = 2 -> IF compromised # {} THEN {"ISOLATE"} ELSE {"PATCH"}
         [] arm = 3 -> {"PATCH"}
         [] arm = 4 -> {"MONITOR"}

\* PessimisticDefender.select_action: one roll, four tiers
PessimisticSelectAction(dns) ==
    UNION {PessimisticArm(dns, arm) : arm \in DefenderArms}

\* a select_action whose fallback is the expensive restore
OptimisticArmRestoring(g, dns, attacker_knowledge, arm) ==
    LET unknown_nodes == Nodes(g) \ attacker_knowledge
        compromised == {n \in DOMAIN dns : dns[n] = "COMPROMISED"}
    IN CASE arm = 1 -> IF Cardinality(unknown_nodes) > 5 THEN {"ACP_DECEPTION"} ELSE {}
         [] arm = 2 -> IF Cardinality(unknown_nodes) > 3 THEN {"DEPLOY_HONEYPOT"} ELSE {}
         [] arm = 3 -> IF compromised # {} THEN {"PATCH", "ISOLATE"} ELSE {}
         [] arm = 4 -> IF compromised = {} THEN {"RESTORE_NODE"} ELSE {}

\* a select_action whose honeypot arm needs only more than 2 unknown nodes
OptimisticArmLowThreshold(g, dns, attacker_knowledge, arm) ==
    LET unknown_nodes == Nodes(g) \ attacker_knowledge
        compromised == {n \in DOMAIN dns : dns[n] = "COMPROMISED"}
    IN CASE arm = 1 -> IF Cardinality(unknown_nodes) > 5 THEN {"ACP_DECEPTION"} ELSE {}
         [] arm = 2 -> IF Cardinality(unknown_nodes) > 2 THEN {"DEPLOY_HONEYPOT"} ELSE {}
         [] arm = 3 -> IF compromised # {} THEN {"PATCH", "ISOLATE"} ELSE {}
         [] arm = 4 -> IF compromised = {} THEN {"MONITOR"} ELSE {}

\* OptimisticACPDefender.select_action: the actions an arm of the chain can
\* return, none if its condition cannot hold (1: deception, 2: honeypot,
\* 3: targeted response, 4: monitoring)
OptimisticArm(g, dns, attacker_knowledge, arm) ==
    LET unknown_nodes == Nodes(g) \ attacker_knowledge
        compromised == {n \in DOMAIN dns : dns[n] = "COMPROMISED"}
    IN CASE arm = 1 -> IF Cardinality(unknown_nodes) > 5 THEN {"ACP_DECEPTION"} ELSE {}
         [] arm = 2 -> IF Cardinality(unknown_nodes) > 3 THEN {"DEPLOY_HONEYPOT"} ELSE {}
         [] arm = 3 -> IF compromised # {} THEN {"PATCH", "ISOLATE"} ELSE {}
         [] arm = 4 -> IF compromised = {} THEN {"MONITOR"} ELSE {}

\* OptimisticACPDefender.select_action
OptimisticSelectAction(g, dns, attacker_knowledge) ==
    UNION {OptimisticArm(g, dns, attacker_knowledge, arm) : arm \in DefenderArms}

\* select_action of the defender in use, for one arm of its chain
DefenderArm(acp, g, dns, attacker_knowledge, arm) ==
    IF acp THEN OptimisticArm(g, dns, attacker_knowledge, arm)
           ELSE PessimisticArm(dns, arm)

DefenderSelectAction(acp, g, dns, attacker_knowledge) ==
    IF acp THEN OptimisticSelectAction(g, dns, attacker_knowledge)
           ELSE PessimisticSelectAction(dns)

\* a target filter that ignores the attacker's knowledge
EligibleIndexesUnfiltered(target_nodes, attacker_knowledge) ==
    1..Len(target_nodes)

\* the targets that pass `node not in attacker_knowledge`
EligibleIndexes(target_nodes, attacker_knowledge) ==
    {i \in 1..Len(target_nodes) : target_nodes[i] \notin attacker_knowledge}

\* OptimisticACPDefender.deploy_acp_deception: the possible results.  `picked`
\* are the list positions whose strength draw succeeded.  The random payload
\* (false_vulnerability, false_value, false_criticality) is left out.
OptimisticDeploy(strength, target_nodes, now, attacker_knowledge) ==
    LET eligible == EligibleIndexes(target_nodes, attacker_knowledge)
        picks == IF strength = 0 THEN {{}}
                 ELSE IF strength >= ConfScale THEN {eligible}
                 ELSE SUBSET eligible
    IN { LET order == SortedList(picked)
             keys == {target_nodes[i] : i \in picked}
         IN [deception_results |-> [n \in keys |-> [timestamp |-> now, success |-> TRUE]],
             attempts |-> Cardinality(picked),
             successes |-> Cardinality(keys),
             history |-> [j \in 1..Len(order) |->
                            [node |-> target_nodes[order[j]], time |-> now]]]
         : picked \in picks }

\* BaseDefender.deploy_acp_deception
BaseDeploy(target_nodes, now, attacker_knowledge) ==
    { [deception_results |-> << >>, attempts |-> 0, successes |-> 0,
       history |-> << >>] }

DeployAcpDeception(acp, strength, target_nodes, now, attacker_knowledge) ==
    IF acp THEN OptimisticDeploy(strength, target_nodes, now, attacker_knowledge)
           ELSE BaseDeploy(target_nodes, now, attacker_knowledge)

----------------------------------------------------------------------------
(* NetworkEnvironment.step *)

\* an attacker reward that adds the outcome's reward whether or not the
\* action succeeded
CalculateAttackerRewardUnconditional(action, outcome) ==
    -action_costs[action] + outcome.reward

\* _calculate_attacker_reward
CalculateAttackerReward(action, outcome) ==
    -action_costs[action] + (IF outcome.success THEN outcome.reward ELSE 0)

\* a defender reward that grants the action's bonus without looking at success
CalculateDefenderRewardUnconditional(action, outcome, ns) ==
    -action_costs[action]
    + CountState(ns, "CLEAN") * 4
    + (CASE action = "PATCH" -> 40
         [] action = "ISOLATE" -> 100
         [] action = "DEPLOY_HONEYPOT" -> 50
         [] action = "ACP_DECEPTION" ->
                150 * Cardinality(DOMAIN outcome.deception_results)
         [] action = "RESTORE_NODE" -> 120
         [] action = "MONITOR" -> 10
         [] OTHER -> 0)
    - CountState(ns, "COMPROMISED") * 20

\* _calculate_defender_reward, on the node states at the end of the step
CalculateDefenderReward(action, outcome, ns) ==
    -action_costs[action]
    + CountState(ns, "CLEAN") * 4
    + (IF outcome.success
       THEN CASE action = "PATCH" -> 40
              [] action = "ISOLATE" -> 100
              [] action = "DEPLOY_HONEYPOT" -> 50
              [] action = "ACP_DECEPTION" ->
                     150 * Cardinality(DOMAIN outcome.deception_results)
              [] action = "RESTORE_NODE" -> 120
              [] action = "MONITOR" -> 10
              [] OTHER -> 0
       ELSE 0)
    - CountState(ns, "COMPROMISED") * 20

\* a deception that targets every unknown node
DeceptionTargetsAll(unknown_nodes) == unknown_nodes

\* targets of the ACP_DECEPTION branch: unknown_nodes[:min(5, len(unknown_nodes))]
DeceptionTargets(unknown_nodes) == Prefix(unknown_nodes, 5)

\* Phase 3 of step(): the defender acts on node states ns, vulnerabilities vul
\* and attacker knowledge known.  Each result carries the network and the
\* defender's bookkeeping after the phase.
DefenderPhase(defender_action, ns, vul, known) ==
    LET now == current_time + 1
        noDeception(r) ==
            [node_states |-> r.node_states, vulnerabilities |-> r.vulnerabilities,
             outcome |-> r.outcome, target |-> r.target,
             deception_results |-> << >>, targets |-> << >>,
             attempts |-> 0, successes |-> 0, history |-> << >>]
    IN IF defender_action = "ACP_DECEPTION"
       THEN LET unknown_nodes == SortedList(Nodes(network) \ known)
            IN IF unknown_nodes # <<>>
               THEN LET targets == DeceptionTargets(unknown_nodes)
                    IN { [node_states |-> ns,
                          vulnerabilities |-> vul,
                          outcome |-> [success |-> DOMAIN d.deception_results # {},
                                       restored_count |-> 0,
                                       deception_results |-> d.deception_results],
                          target |-> {},
                          deception_results |-> d.deception_results,
                          targets |-> targets,
                          attempts |-> d.attempts, successes |-> d.successes,
                          history |-> d.history]
                         : d \in DeployAcpDeception(use_acp, acp_strength, targets,
                                                    now, known) }
               ELSE { [node_states |-> ns,
                       vulnerabilities |-> vul,
                       outcome |-> [success |-> FALSE, restored_count |-> 0,
                                    deception_results |-> << >>],
                       target |-> {},
                       deception_results |-> << >>, targets |-> << >>,
                       attempts |-> 0, successes |-> 0, history |-> << >>] }
       ELSE { noDeception(r)
              : r \in ExecuteDefenderAction(defender_action, ns, vul) }

\* a learn phase that treats every step as poisoned
LearningConfidencesAlwaysPoisoned(deception_results) == PoisonedConfidences

\* a poisoning that needs two deception records
LearningConfidencesTwoRecords(deception_results) ==
    IF Cardinality(DOMAIN deception_results) >= 2 THEN PoisonedConfidences
    ELSE {ConfScale}

\* Phase 5 of step(): the confidence handed to learn()
LearningConfidences(deception_results) ==
    IF DOMAIN deception_results # {} THEN PoisonedConfidences ELSE {ConfScale}

\* Phases 5-6 and the return value of step(), for one outcome d of the
\* defender phase, one outcome a of the attacker phase and one confidence
\* draw; final are the node states both phases left
StepResult(attacker_action, defender_action, d, a, learning_confidence, final) ==
    LET now == current_time + 1
        observation == GetState(node_states, now)
        situation == EncodeSituation(a.known_nodes, a.compromised_nodes, observation)
        deceived == DOMAIN d.deception_results # {}
    IN CHOOSE result \in {
       [node_states |-> final,
        vulnerabilities |-> d.vulnerabilities,
        current_time |-> now,
        metrics |->
            [cognitive_latency_exploitations |->
                 metrics.cognitive_latency_exploitations + (IF deceived THEN 1 ELSE 0),
             acp_deceptions |->
                 IF deceived THEN Append(metrics.acp_deceptions, now)
                             ELSE metrics.acp_deceptions,
             expensive_actions |->
                 IF defender_action = "RESTORE_NODE"
                 THEN Append(metrics.expensive_actions, now)
                 ELSE metrics.expensive_actions],
        known_nodes |-> a.known_nodes,
        compromised_nodes |-> a.compromised_nodes,
        memory |-> learnt.memory,
        overall_confidence |-> learnt.overall_confidence,
        learning_history |-> learnt.learning_history,
        deception_attempts |-> deception_attempts + d.attempts,
        deception_successes |-> deception_successes + d.successes,
        deception_history |-> deception_history \o d.history,
        \* locals and return value
        observation |-> observation,
        situation |-> situation,
        defender_outcome |-> d.outcome,
        defender_target |-> d.target,
        \* the network as the defender phase left it
        defended |-> [node_states |-> d.node_states,
                      vulnerabilities |-> d.vulnerabilities],
        deception_results |-> d.deception_results,
        targets |-> d.targets,
        attacker_outcome |-> a.outcome,
        attacker_target |-> a.target,
        learning_confidence |-> learning_confidence,
        pruned |-> learnt.pruned,
        attacker_reward |-> CalculateAttackerReward(attacker_action, a.outcome),
        defender_reward |-> CalculateDefenderReward(defender_action, d.outcome,
                                                    final),
        done |-> CheckTermination(final, now)]
       \* attacker.learn() is called once; learnt is the attacker after it
       : learnt \in { AttackerLearn(learning_rate, memory, overall_confidence,
                                    learning_history, situation, attacker_action,
                                    a.outcome.reward, now, learning_confidence) }
       } : TRUE

\* a reordered step(): the attacker's action is resolved first and the
\* defender acts on what it left
StepResultsAttackerFirst(attacker_action, defender_action) ==
    UNION { UNION { { StepResult(attacker_action, defender_action, d, a, c,
                                 d.node_states)
                      : c \in LearningConfidences(d.deception_results) }
                    : d \in DefenderPhase(defender_action, a.node_states,
                                          vulnerabilities, known_nodes) }
            : a \in ExecuteAttackerAction(attacker_action, network, node_states,
                                          vulnerabilities, known_nodes,
                                          compromised_nodes) }

\* step(): phase 3 (defender), then phase 4 (attacker) on the network the
\* defender left, then learning, rewards and termination
StepResults(attacker_action, defender_action) ==
    UNION { UNION { { StepResult(attacker_action, defender_action, d, a, c,
                                 a.node_states)
                      : c \in LearningConfidences(d.deception_results) }
                    : a \in ExecuteAttackerAction(attacker_action, network,
                                                  d.node_states, d.vulnerabilities,
                                                  known_nodes, compromised_nodes) }
            : d \in DefenderPhase(defender_action, node_states, vulnerabilities,
                                  known_nodes) }

\* the effect of one step() call with result r on the objects
ApplyStep(attacker_action, defender_action, r) ==
    /\ node_states' = r.node_states
    /\ vulnerabilities' = r.vulnerabilities
    /\ current_time' = r.current_time
    /\ metrics' = r.metrics
    /\ known_nodes' = r.known_nodes
    /\ compromised_nodes' = r.compromised_nodes
    /\ memory' = r.memory
    /\ overall_confidence' = r.overall_confidence
    /\ learning_history' = r.learning_history
    /\ deception_attempts' = r.deception_attempts
    /\ deception_successes' = r.deception_successes
    /\ deception_history' = r.deception_history
    /\ last' = [call |-> "step",
                attacker_action |-> attacker_action,
                defender_action |-> defender_action,
                before |-> [node_states |-> node_states,
                            known_nodes |-> known_nodes,
                            compromised_nodes |-> compromised_nodes,
                            overall_confidence |-> overall_confidence],
                observation |-> r.observation,
                situation |-> r.situation,
                defender_outcome |-> r.defender_outcome,
                defender_target |-> r.defender_target,
                defended |-> r.defended,
                deception_results |-> r.deception_results,
                targets |-> r.targets,
                attacker_outcome |-> r.attacker_outcome,
                attacker_target |-> r.attacker_target,
                learning_confidence |-> r.learning_confidence,
                pruned |-> r.pruned,
                attacker_reward |-> r.attacker_reward,
                defender_reward |-> r.defender_reward,
                done |-> r.done]
    /\ UNCHANGED <<network, learning_rate, use_acp, acp_strength, defender_node_states>>

NoCall == [call |-> "none"]

\* no SimulationConfig object exists
NoConfig == [none |-> TRUE]

\* no experiment is being run
NoExperiment ==
    /\ config = NoConfig
    /\ np_random_state = << >>
    /\ episode_id = 0
    /\ acp_results = << >>
    /\ traditional_results = << >>
    /\ pool = [tasks |-> << >>, running |-> << >>, results |-> << >>,
            completed |-> << >>]

\* the objects as their constructors leave them
Constructed(g, vul, lr, acp, strength) ==
    /\ network = g
    /\ node_states = [n \in Nodes(g) |-> "CLEAN"]
    /\ vulnerabilities = vul
    /\ current_time = 0
    /\ metrics = [cognitive_latency_exploitations |-> 0, acp_deceptions |-> << >>,
                  expensive_actions |-> << >>]
    /\ learning_rate = lr
    /\ known_nodes = {}
    /\ compromised_nodes = {}
    /\ memory = << >>
    /\ overall_confidence = ConfScale
    /\ learning_history = << >>
    /\ use_acp = acp
    /\ acp_strength = strength
    /\ defender_node_states = [n \in Nodes(g) |-> "CLEAN"]
    /\ roll = 0
    /\ action_history = << >>
    /\ deception_attempts = 0
    /\ deception_successes = 0
    /\ deception_history = << >>
    /\ last = NoCall

\* the run_single_episode locals before the loop
RunnerIdle(mspe) ==
    /\ max_steps_per_episode = mspe
    /\ step_count = 0
    /\ episode_reward = 0
    /\ actions = << >>
    /\ rewards_per_step = << >>
    /\ attacker_confidence_trajectory = << >>

\* ConfigurableNetworkEnvironment._initialize_vulnerabilities, 'uniform'
UniformVulnerabilities(g) == [n \in Nodes(g) |-> VulnScale \div 2]

\* NetworkEnvironment.reset
Reset ==
    /\ pc = "constructed"
    /\ pc' = "run"
    /\ node_states' = [n \in Nodes(network) |-> "CLEAN"]
    /\ \E vul \in VulnProfiles(network) : vulnerabilities' = vul
    /\ current_time' = 0
    /\ metrics' = [cognitive_latency_exploitations |-> 0, acp_deceptions |-> << >>,
                   expensive_actions |-> << >>]
    /\ UNCHANGED <<mode, script, network, attVars, defVars, runVars, expVars, last>>

----------------------------------------------------------------------------
(* run_single_episode (simulation/runner.py) *)

\* max_steps = min(config.max_steps_per_episode, config.num_nodes)
MaxSteps == Min(max_steps_per_episode, network.num_nodes)

\* a loop exit test that allows one more iteration
LoopExitLate(done, steps) == done \/ steps > MaxSteps + 1

\* the loop exit test `done or step_count > max_steps`
LoopExit(done, steps) == done \/ steps > MaxSteps

\* the configurations an episode is run with
EpisodeConfigs ==
    { [network |-> Path4, max_steps_per_episode |-> m, use_acp |-> TRUE,
       acp_strength |-> 65, learning_rate |-> 100] : m \in {1, 60} }
    \cup
    { [network |-> Path4, max_steps_per_episode |-> m, use_acp |-> FALSE,
       acp_strength |-> 65, learning_rate |-> lr] : m \in {1, 2}, lr \in {100} }
    \cup
    { [network |-> Tree6, max_steps_per_episode |-> 1, use_acp |-> TRUE,
       acp_strength |-> 65, learning_rate |-> 150] }

\* one iteration of the `while True` loop
EpisodeStep ==
    /\ mode = "episode"
    /\ pc = "run"
    /\ \E attacker_action \in AttackerSelectAction(memory) :
       \E arm \in DefenderArms :
       \E defender_action \in DefenderArm(use_acp, network, defender_node_states,
                                          known_nodes, arm) :
       \E r \in StepResults(attacker_action, defender_action) :
          /\ ApplyStep(attacker_action, defender_action, r)
          /\ roll' = arm
          /\ action_history' = Append(action_history, defender_action)
          /\ episode_reward' = episode_reward + r.defender_reward
          /\ step_count' = step_count + 1
          /\ actions' = Append(actions, defender_action)
          /\ rewards_per_step' = Append(rewards_per_step, r.defender_reward)
          /\ attacker_confidence_trajectory' =
                 Append(attacker_confidence_trajectory, r.overall_confidence)
          /\ pc' = IF LoopExit(r.done, step_count + 1) THEN "done" ELSE "run"
    /\ UNCHANGED <<mode, script, max_steps_per_episode, expVars>>

\* the result dictionary is built and returned
EpisodeReturn ==
    /\ mode = "episode"
    /\ pc = "done"
    /\ pc' = "returned"
    /\ last' = [call |-> "run_single_episode",
                use_acp |-> use_acp,
                total_reward |-> episode_reward,
                steps |-> step_count,
                actions |-> actions,
                action_counts |->
                    [a \in Range(actions) |->
                        Cardinality({i \in 1..Len(actions) : actions[i] = a})],
                rewards_per_step |-> rewards_per_step,
                final_attacker_confidence |-> overall_confidence,
                attacker_confidence_trajectory |-> attacker_confidence_trajectory]
    /\ UNCHANGED <<mode, script, envVars, attVars, defVars, runVars, expVars>>

Init ==
    /\ mode = "episode"
    /\ pc = "constructed"
    /\ script = << >>
    /\ \E c \in EpisodeConfigs :
          /\ Constructed(c.network, UniformVulnerabilities(c.network),
                         c.learning_rate, c.use_acp, c.acp_strength)
          /\ RunnerIdle(c.max_steps_per_episode)
          /\ NoExperiment

Next ==
    \/ Reset
    \/ EpisodeStep
    \/ EpisodeReturn

Spec == Init /\ [][Next]_vars

----------------------------------------------------------------------------
(* Direct use of the engine: a caller constructs the objects and calls     *)
(* step() with actions of its own choice, stopping when step reports done. *)

\* the call sequences of the direct callers, as <<attacker_action, defender_action>>
EngineScripts ==
    { << <<"SCAN", "MONITOR">>, <<"EXPLOIT", "PATCH">>, <<"PROPAGATE", "ISOLATE">>,
         <<"PROPAGATE", "RESTORE_NODE">>, <<"EXPLOIT", "ISOLATE">> >>,
      << <<"SCAN", "ACP_DECEPTION">>, <<"EXPLOIT", "DEPLOY_HONEYPOT">>,
         <<"PROPAGATE", "PATCH">>, <<"EXPLOIT", "RESTORE_NODE">> >>,
      << <<"EXPLOIT", "RESTORE_NODE">>, <<"PROPAGATE", "ISOLATE">>,
         <<"SCAN", "DEPLOY_HONEYPOT">>, <<"SCAN", "ACP_DECEPTION">>,
         <<"EXPLOIT", "PATCH">> >>,
      << <<"SCAN", "MONITOR">>, <<"EXPLOIT", "MONITOR">>, <<"PROPAGATE", "MONITOR">>,
         <<"PROPAGATE", "MONITOR">>, <<"SCAN", "ACP_DECEPTION">> >>,
      \* a caller that patches and deploys honeypots until no node is left for it
      << <<"SCAN", "PATCH">>, <<"SCAN", "PATCH">>, <<"SCAN", "PATCH">>,
         <<"SCAN", "DEPLOY_HONEYPOT">>, <<"EXPLOIT", "DEPLOY_HONEYPOT">>,
         <<"PROPAGATE", "DEPLOY_HONEYPOT">> >>,
      \* a caller that keeps stepping until the time limit has passed
      [i \in 1..(TimeLimit + 2) |-> <<"PROPAGATE", "MONITOR">>] }

\* a caller on the six-node network that restores once four nodes are
\* Compromised
RestoreScript ==
    << <<"SCAN", "MONITOR">>, <<"EXPLOIT", "MONITOR">>, <<"PROPAGATE", "MONITOR">>,
       <<"PROPAGATE", "MONITOR">>, <<"PROPAGATE", "MONITOR">>,
       <<"SCAN", "RESTORE_NODE">> >>

EngineInit ==
    /\ mode = "engine"
    /\ pc = "run"
    /\ \/ /\ script \in EngineScripts
          /\ \E vul \in VulnProfiles(Path4), acp \in BOOLEAN :
                Constructed(Path4, vul, 100, acp, 65)
       \/ /\ script = RestoreScript
          /\ \E vul \in VulnProfiles(Tree6) :
                Constructed(Tree6, vul, 100, FALSE, 65)
    /\ RunnerIdle(0)
    /\ NoExperiment

\* one step() call of a direct caller
EngineStep ==
    /\ mode \in {"engine", "contract"}
    /\ pc = "run"
    /\ script # << >>
    /\ Head(script)[1] \in DOMAIN action_costs
    /\ Head(script)[2] \in DOMAIN action_costs
    /\ \E r \in StepResults(Head(script)[1], Head(script)[2]) :
          /\ ApplyStep(Head(script)[1], Head(script)[2], r)
          /\ pc' = IF r.done THEN "done" ELSE "run"
    /\ script' = Tail(script)
    /\ UNCHANGED <<mode, roll, action_history, runVars, expVars>>

EngineNext == EngineStep

SpecEngine == EngineInit /\ [][EngineNext]_vars

----------------------------------------------------------------------------
(* step() called with a value that has no entry in action_costs.  Neither  *)
(* _execute_defender_action nor _execute_attacker_action looks the action  *)
(* up: they leave their default outcome.  The lookup happens in phase 6,   *)
(* in _calculate_attacker_reward and then _calculate_defender_reward, and  *)
(* raises KeyError there.                                                   *)

\* the call sequences that end with an unrecognized action
ContractScripts ==
    { prefix \o << bad >>
      : prefix \in { << >>,
                     << <<"SCAN", "MONITOR">> >>,
                     << <<"SCAN", "ACP_DECEPTION">>, <<"EXPLOIT", "PATCH">> >> },
        bad \in { <<"UNRECOGNIZED", "MONITOR">>, <<"SCAN", "UNRECOGNIZED">>,
                  <<"EXPLOIT", "UNRECOGNIZED">>, <<"UNRECOGNIZED", "RESTORE_NODE">>,
                  <<"UNRECOGNIZED", "ACP_DECEPTION">> } }

\* one step() call that raises KeyError in phase 6: phases 1 to 5 have run
EngineStepRaises ==
    /\ mode = "contract"
    /\ pc = "run"
    /\ script # << >>
    /\ LET attacker_action == Head(script)[1]
           defender_action == Head(script)[2]
           now == current_time + 1
           observation == GetState(node_states, now)
       IN /\ \/ attacker_action \notin DOMAIN action_costs
             \/ defender_action \notin DOMAIN action_costs
          /\ \E d \in DefenderPhase(defender_action, node_states, vulnerabilities,
                                    known_nodes) :
             \E a \in ExecuteAttackerAction(attacker_action, network, d.node_states,
                                            d.vulnerabilities, known_nodes,
                                            compromised_nodes) :
             \E learning_confidence \in LearningConfidences(d.deception_results) :
             \E learnt \in { AttackerLearn(learning_rate, memory, overall_confidence,
                                           learning_history,
                                           EncodeSituation(a.known_nodes,
                                                           a.compromised_nodes,
                                                           observation),
                                           attacker_action, a.outcome.reward, now,
                                           learning_confidence) } :
                /\ current_time' = now
                /\ node_states' = a.node_states
                /\ vulnerabilities' = d.vulnerabilities
                /\ metrics' =
                      IF DOMAIN d.deception_results # {}
                      THEN [metrics EXCEPT
                              !.cognitive_latency_exploitations = @ + 1,
                              !.acp_deceptions = Append(@, now)]
                      ELSE metrics
                /\ known_nodes' = a.known_nodes
                /\ compromised_nodes' = a.compromised_nodes
                /\ memory' = learnt.memory
                /\ overall_confidence' = learnt.overall_confidence
                /\ learning_history' = learnt.learning_history
                /\ deception_attempts' = deception_attempts + d.attempts
                /\ deception_successes' = deception_successes + d.successes
                /\ deception_history' = deception_history \o d.history
                /\ last' = [call |-> "step",
                            attacker_action |-> attacker_action,
                            defender_action |-> defender_action,
                            raised |-> "KeyError",
                            raised_in |-> IF attacker_action \notin DOMAIN action_costs
                                          THEN "_calculate_attacker_reward"
                                          ELSE "_calculate_defender_reward"]
    /\ pc' = "raised"
    /\ script' = Tail(script)
    /\ UNCHANGED <<mode, network, learning_rate, use_acp, acp_strength,
                   defender_node_states, roll, action_history, runVars, expVars>>

ContractInit ==
    /\ mode = "contract"
    /\ pc = "run"
    /\ script \in ContractScripts
    /\ \E vul \in VulnProfiles(Path4), acp \in BOOLEAN :
          Constructed(Path4, vul, 100, acp, 65)
    /\ RunnerIdle(0)
    /\ NoExperiment

ContractNext ==
    \/ EngineStep
    \/ EngineStepRaises

SpecContract == ContractInit /\ [][ContractNext]_vars

----------------------------------------------------------------------------
(* The attacker's learn() on its own, called as step() calls it: one call   *)
(* per time unit, with confidence 1.0 or a poisoned confidence.             *)

LearnCalls == 153       \* calls made in a run
PoisonWindow == 3       \* only the first calls may be poisoned

\* one learn() call with the given confidence
LearnCall(confidence) ==
    LET now == current_time + 1
        learnt == AttackerLearn(learning_rate, memory, overall_confidence,
                                learning_history, <<0, 0, 0, now \div 10>>,
                                "SCAN", 20, now, confidence)
    IN /\ mode = "learn"
       /\ current_time < LearnCalls
       /\ current_time' = now
       /\ memory' = learnt.memory
       /\ overall_confidence' = learnt.overall_confidence
       /\ learning_history' = learnt.learning_history
       /\ last' = [call |-> "learn", confidence |-> confidence,
                   at_append |-> learnt.at_append, pruned |-> learnt.pruned,
                   before |-> [overall_confidence |-> overall_confidence,
                               size |-> Len(memory)]]
       /\ UNCHANGED <<mode, pc, script, network, node_states, vulnerabilities,
                      metrics, learning_rate, known_nodes, compromised_nodes,
                      defVars, runVars, expVars>>

LearnNormal == LearnCall(ConfScale)

LearnPoisoned ==
    /\ current_time < PoisonWindow
    /\ \E c \in PoisonedConfidences : LearnCall(c)

LearnInit ==
    /\ mode = "learn"
    /\ pc = "run"
    /\ script = << >>
    /\ \E lr \in {50, 100, 150} :
          Constructed(Path4, UniformVulnerabilities(Path4), lr, TRUE, 65)
    /\ RunnerIdle(0)
    /\ NoExperiment

LearnNext == LearnNormal \/ LearnPoisoned

SpecLearn == LearnInit /\ [][LearnNext]_vars

----------------------------------------------------------------------------
(* deploy_acp_deception on its own, for any target list and knowledge set *)

MaxTargets == 2         \* length of the target list
MaxDeployCalls == 1     \* calls made in a run
MaxSelectCalls == 1     \* select_action calls made in a run
DeployNodes == 0 .. 2   \* node ids in the target lists and knowledge sets

TargetLists == UNION { [1..k -> DeployNodes] : k \in 0..MaxTargets }

DeployCall ==
    /\ mode = "deploy"
    /\ current_time < MaxDeployCalls
    /\ \E target_nodes \in TargetLists, attacker_knowledge \in SUBSET DeployNodes :
       \E d \in DeployAcpDeception(use_acp, acp_strength, target_nodes,
                                   current_time + 1, attacker_knowledge) :
          /\ deception_attempts' = deception_attempts + d.attempts
          /\ deception_successes' = deception_successes + d.successes
          /\ deception_history' = deception_history \o d.history
          /\ last' = [call |-> "deploy", target_nodes |-> target_nodes,
                      attacker_knowledge |-> attacker_knowledge,
                      result |-> d.deception_results]
    /\ current_time' = current_time + 1
    /\ UNCHANGED <<mode, pc, script, network, node_states, vulnerabilities, metrics,
                   attVars, use_acp, acp_strength, defender_node_states, roll,
                   action_history, runVars, expVars>>

\* defender.select_action(state, attacker_knowledge) called on its own
SelectCall ==
    /\ mode = "deploy"
    /\ Len(action_history) < MaxSelectCalls
    /\ \E attacker_knowledge \in SUBSET DeployNodes :
       \E arm \in DefenderArms :
       \E action \in DefenderArm(use_acp, network, defender_node_states,
                                 attacker_knowledge, arm) :
          /\ roll' = arm
          /\ action_history' = Append(action_history, action)
          /\ last' = [call |-> "select_action", action |-> action,
                      attacker_knowledge |-> attacker_knowledge]
    /\ UNCHANGED <<mode, pc, script, envVars, attVars, use_acp, acp_strength,
                   defender_node_states, deception_attempts, deception_successes,
                   deception_history, runVars, expVars>>

DeployInit ==
    /\ mode = "deploy"
    /\ pc = "run"
    /\ script = << >>
    /\ \E acp \in BOOLEAN, strength \in {0, 65, 100} :
          Constructed(Path4, UniformVulnerabilities(Path4), 100, acp, strength)
    /\ RunnerIdle(0)
    /\ NoExperiment

DeployNext == DeployCall \/ SelectCall

SpecDeploy == DeployInit /\ [][DeployNext]_vars

----------------------------------------------------------------------------
(* SimulationConfig (core/dataclasses.py): construction of the frozen       *)
(* dataclass, whose __post_init__ validates the fields.  Probabilities and  *)
(* the confidence level are in hundredths.                                  *)

\* the field defaults of the dataclass
DefaultConfig ==
    [num_episodes |-> 1000, num_nodes |-> 50, connectivity |-> 60,
     acp_strength |-> 65, learning_rate |-> 100, confidence_level |-> 95,
     bootstrap_samples |-> 10000, random_seed |-> 42,
     max_steps_per_episode |-> 60]

\* the keyword arguments the constructor is called with
ConfigArguments ==
    { [DefaultConfig EXCEPT !.acp_strength = a, !.connectivity = c,
                            !.confidence_level = l, !.num_nodes = n,
                            !.num_episodes = e, !.bootstrap_samples = b,
                            !.max_steps_per_episode = m]
      : a \in {-10, 0, 65, 100, 150}, c \in {-10, 0, 60, 100, 150},
        l \in {50, 85, 90, 95, 99}, n \in {0, 5, 9, 10, 50},
        e \in {-10, 0, 1, 1000}, b \in {0, 99, 100, 10000},
        m \in {-1, 60} }

\* a __post_init__ that turns num_nodes = 10 down
PostInitExclusive(c) ==
    IF ~(0 <= c.acp_strength /\ c.acp_strength <= 100)
    THEN "acp_strength must be between 0.0 and 1.0"
    ELSE IF ~(0 <= c.connectivity /\ c.connectivity <= 100)
    THEN "connectivity must be between 0.0 and 1.0"
    ELSE IF c.confidence_level \notin {90, 95, 99}
    THEN "confidence_level must be 0.90, 0.95, or 0.99"
    ELSE IF c.num_nodes <= 10
    THEN "num_nodes must be at least 10"
    ELSE IF c.num_episodes < 1
    THEN "num_episodes must be at least 1"
    ELSE IF c.bootstrap_samples < 100
    THEN "bootstrap_samples must be at least 100"
    ELSE "none"

\* __post_init__: the message of the ValueError it raises, "none" if it returns
PostInit(c) ==
    IF ~(0 <= c.acp_strength /\ c.acp_strength <= 100)
    THEN "acp_strength must be between 0.0 and 1.0"
    ELSE IF ~(0 <= c.connectivity /\ c.connectivity <= 100)
    THEN "connectivity must be between 0.0 and 1.0"
    ELSE IF c.confidence_level \notin {90, 95, 99}
    THEN "confidence_level must be 0.90, 0.95, or 0.99"
    ELSE IF c.num_nodes < 10
    THEN "num_nodes must be at least 10"
    ELSE IF c.num_episodes < 1
    THEN "num_episodes must be at least 1"
    ELSE IF c.bootstrap_samples < 100
    THEN "bootstrap_samples must be at least 100"
    ELSE "none"

\* config = SimulationConfig(**arguments): the name is bound only when the
\* constructor returns
ConstructConfig ==
    /\ mode = "config"
    /\ pc = "idle"
    /\ \E arguments \in ConfigArguments :
          LET error == PostInit(arguments)
          IN /\ config' = IF error = "none" THEN arguments ELSE config
             /\ last' = [call |-> "SimulationConfig", arguments |-> arguments,
                         raised |-> error # "none", error |-> error]
    /\ pc' = "called"
    /\ UNCHANGED <<mode, script, envVars, attVars, defVars, runVars,
                   np_random_state, episode_id, acp_results, traditional_results,
                   pool>>

ConfigInit ==
    /\ mode = "config"
    /\ pc = "idle"
    /\ script = << >>
    /\ Constructed(Path4, UniformVulnerabilities(Path4), 100, TRUE, 65)
    /\ RunnerIdle(0)
    /\ NoExperiment

ConfigNext == ConstructConfig

SpecConfig == ConfigInit /\ [][ConfigNext]_vars

----------------------------------------------------------------------------
(* run_experiment and run_experiment_parallel (simulation/runner.py).  The  *)
(* caller runs the sequential experiment and then the parallel one on the   *)
(* same configuration.  Process 0 is the caller, processes 1..n are the     *)
(* workers of the Pool.  The global random generators of a process are the  *)
(* state [seed, drawn]: the seed they were last seeded with and the draws   *)
(* taken since.  What an episode draws, hence every field of its result,    *)
(* is a function of that state; distinct states are given distinct rewards. *)

MaxEpisodes == 5        \* config.num_episodes of the experiments
MaxWorkers == 2         \* n_workers of the parallel experiments

\* generators seeded from the operating system at interpreter start
OsSeeded == [seed |-> -1, drawn |-> 0]

\* SimulationConfig.get_episode_seed
GetEpisodeSeed(c, id) == c.random_seed + id

\* an episode start that leaves the generators as it finds them
SeedEpisodeKeeping(state, episode_seed) == state

\* np.random.seed(episode_seed); random.seed(episode_seed)
SeedEpisode(state, episode_seed) == [seed |-> episode_seed, drawn |-> 0]

\* the total reward of the episode run from generator state `state`
EpisodeReward(state, acp) ==
    state.seed * 100 + state.drawn * 10 + (IF acp THEN 1 ELSE 0)

\* run_single_episode(id, acp, c) in a process whose generators are in
\* `state`: the result dictionary and the generators after the call
RunSingleEpisode(state, id, acp, c) ==
    LET seeded == SeedEpisode(state, GetEpisodeSeed(c, id))
    IN [result |-> [episode_id |-> id, use_acp |-> acp,
                    total_reward |-> EpisodeReward(seeded, acp)],
        state |-> [seeded EXCEPT !.drawn = @ + 1]]

\* an alternation that starts with the Traditional defender
UseAcpOdd(id) == id % 2 = 1

\* use_acp = (episode_id % 2 == 0)
UseAcp(id) == id % 2 = 0

\* np.array([r['total_reward'] for r in results])
Rewards(results) == [i \in 1..Len(results) |-> results[i].total_reward]

\* [r for r in results if r['use_acp'] == acp], for a list of results
RECURSIVE SelectResults(_, _)
SelectResults(results, acp) ==
    IF results = << >> THEN << >>
    ELSE (IF Head(results).use_acp = acp THEN <<Head(results)>> ELSE << >>)
         \o SelectResults(Tail(results), acp)

\* one iteration of the `for episode_id in range(config.num_episodes)` loop
RunEpisodeSequential ==
    /\ mode = "experiment"
    /\ pc = "loop"
    /\ episode_id < config.num_episodes
    /\ LET acp == UseAcp(episode_id)
           run == RunSingleEpisode(np_random_state[0], episode_id, acp, config)
       IN /\ np_random_state' = [np_random_state EXCEPT ![0] = run.state]
          /\ acp_results' = IF acp THEN Append(acp_results, run.result)
                                   ELSE acp_results
          /\ traditional_results' = IF acp THEN traditional_results
                                    ELSE Append(traditional_results, run.result)
          /\ last' = [call |-> "run_single_episode", episode_id |-> episode_id,
                      use_acp |-> acp]
    /\ episode_id' = episode_id + 1
    /\ UNCHANGED <<mode, pc, script, envVars, attVars, defVars, runVars, config, pool>>

\* run_experiment returns the reward arrays
ReturnSequential ==
    /\ mode = "experiment"
    /\ pc = "loop"
    /\ episode_id >= config.num_episodes
    /\ pc' = "sequential_returned"
    /\ last' = [call |-> "run_experiment",
                acp_rewards |-> Rewards(acp_results),
                traditional_rewards |-> Rewards(traditional_results)]
    /\ UNCHANGED <<mode, script, envVars, attVars, defVars, runVars, expVars>>

\* the episode_params list of run_experiment_parallel
EpisodeParams(c) ==
    [i \in 1..c.num_episodes |->
        [index |-> i, episode_id |-> i - 1, use_acp |-> UseAcp(i - 1)]]

\* Pool.starmap's default chunk size for a list of n tasks and `processes` workers
ChunkSize(n, processes) ==
    (n \div (processes * 4)) + (IF n % (processes * 4) # 0 THEN 1 ELSE 0)

\* the task list cut into chunks of `size`
Chunks(tasks, size) ==
    LET n == Len(tasks)
        count == (n + size - 1) \div size
    IN [k \in 1..count |-> SubSeq(tasks, (k - 1) * size + 1, Min(k * size, n))]

\* `with Pool(processes=n_workers) as pool: pool.starmap(...)` is entered:
\* the workers are forked from the caller and the chunks are queued
PoolStart ==
    /\ mode = "experiment"
    /\ pc = "sequential_returned"
    /\ pc' = "pool"
    /\ \E n_workers \in 1..MaxWorkers :
          /\ np_random_state' = [w \in 0..n_workers |-> np_random_state[0]]
          /\ pool' = [tasks |-> Chunks(EpisodeParams(config),
                                       ChunkSize(config.num_episodes, n_workers)),
                      running |-> [w \in 1..n_workers |-> << >>],
                      results |-> << >>, completed |-> << >>]
    /\ last' = [call |-> "Pool"]
    /\ UNCHANGED <<mode, script, envVars, attVars, defVars, runVars, config,
                   episode_id, acp_results, traditional_results>>

\* an idle worker takes the next chunk from the task queue
WorkerTake(w) ==
    /\ mode = "experiment"
    /\ pc = "pool"
    /\ w \in DOMAIN pool.running
    /\ pool.running[w] = << >>
    /\ pool.tasks # << >>
    /\ pool' = [pool EXCEPT !.tasks = Tail(@), !.running[w] = Head(pool.tasks)]
    /\ UNCHANGED <<mode, pc, script, envVars, attVars, defVars, runVars, config,
                   np_random_state, episode_id, acp_results, traditional_results,
                   last>>

\* a worker runs the next task of its chunk; the result goes to the slot of
\* the task in the result list; completed is the order the results came in
WorkerRun(w) ==
    /\ mode = "experiment"
    /\ pc = "pool"
    /\ w \in DOMAIN pool.running
    /\ pool.running[w] # << >>
    /\ LET task == Head(pool.running[w])
           run == RunSingleEpisode(np_random_state[w], task.episode_id,
                                   task.use_acp, config)
       IN /\ np_random_state' = [np_random_state EXCEPT ![w] = run.state]
          /\ pool' = [pool EXCEPT !.running[w] = Tail(@),
                                  !.results = (task.index :> run.result) @@ @,
                                  !.completed = Append(@, task.index)]
          /\ last' = [call |-> "run_single_episode",
                      episode_id |-> task.episode_id, use_acp |-> task.use_acp]
    /\ UNCHANGED <<mode, pc, script, envVars, attVars, defVars, runVars, config,
                   episode_id, acp_results, traditional_results>>

\* starmap returns the result list once every task is done, and
\* run_experiment_parallel separates it and returns the reward arrays
PoolJoin ==
    /\ mode = "experiment"
    /\ pc = "pool"
    /\ pool.tasks = << >>
    /\ \A w \in DOMAIN pool.running : pool.running[w] = << >>
    /\ pc' = "returned"
    /\ LET results == [i \in 1..config.num_episodes |-> pool.results[i]]
       IN last' = [call |-> "run_experiment_parallel",
                   n_workers |-> Len(pool.running),
                   acp_rewards |-> Rewards(SelectResults(results, TRUE)),
                   traditional_rewards |-> Rewards(SelectResults(results, FALSE))]
    /\ UNCHANGED <<mode, script, envVars, attVars, defVars, runVars, expVars>>

\* the configurations the experiments are run on
ExperimentConfigs ==
    { [DefaultConfig EXCEPT !.num_episodes = n] : n \in 1..MaxEpisodes }

ExperimentInit ==
    /\ mode = "experiment"
    /\ pc = "loop"
    /\ script = << >>
    /\ Constructed(Path4, UniformVulnerabilities(Path4), 100, TRUE, 65)
    /\ RunnerIdle(0)
    /\ config \in ExperimentConfigs
    /\ np_random_state = [w \in {0} |-> OsSeeded]
    /\ episode_id = 0
    /\ acp_results = << >>
    /\ traditional_results = << >>
    /\ pool = [tasks |-> << >>, running |-> << >>, results |-> << >>,
            completed |-> << >>]

ExperimentNext ==
    \/ RunEpisodeSequential
    \/ ReturnSequential
    \/ PoolStart
    \/ \E w \in 1..MaxWorkers : WorkerTake(w)
    \/ \E w \in 1..MaxWorkers : WorkerRun(w)
    \/ PoolJoin

SpecExperiment == ExperimentInit /\ [][ExperimentNext]_vars

----------------------------------------------------------------------------
(* Instance (core/dataclasses.py): the memory records, created as learn()   *)
(* creates them and assigned to by a holder of the record.                  *)

MaxInstances == 2       \* instances created in a run

\* `@dataclass` on Instance carries no frozen=True
InstanceFrozen == FALSE

\* Instance(situation, action, outcome, timestamp, confidence): the generated
\* __init__ stores its arguments
NewInstance(situation, action, outcome, timestamp, confidence) ==
    [situation |-> situation, action |-> action, outcome |-> outcome,
     timestamp |-> timestamp, confidence |-> confidence]

\* obj.field = value on a dataclass object: a frozen dataclass raises
\* FrozenInstanceError (an AttributeError), any other stores the value
SetAttr(frozen, obj, field, value) ==
    IF frozen THEN [raised |-> TRUE, object |-> obj]
              ELSE [raised |-> FALSE, object |-> [obj EXCEPT ![field] = value]]

\* an Instance is created and stored in the memory
CreateInstance ==
    /\ mode = "instance"
    /\ Len(memory) < MaxInstances
    /\ \E action \in AttackerActions, outcome \in {-20, 50},
          confidence \in {30, ConfScale} :
          LET instance == NewInstance(<<1, 2>>, action, outcome, Len(memory) + 1,
                                      confidence)
          IN /\ memory' = Append(memory, instance)
             /\ last' = [call |-> "Instance", instance |-> instance]
    /\ UNCHANGED <<mode, pc, script, envVars, learning_rate, known_nodes,
                   compromised_nodes, overall_confidence, learning_history,
                   defVars, runVars, expVars>>

\* memory[index].field = value
AssignInstanceField ==
    /\ mode = "instance"
    /\ \E index \in 1..Len(memory), field \in {"confidence", "outcome", "timestamp"},
          value \in {0, 50} :
          LET assigned == SetAttr(InstanceFrozen, memory[index], field, value)
          IN /\ memory' = [memory EXCEPT ![index] = assigned.object]
             /\ last' = [call |-> "setattr", index |-> index, field |-> field,
                         value |-> value, raised |-> assigned.raised,
                         before |-> memory[index]]
    /\ UNCHANGED <<mode, pc, script, envVars, learning_rate, known_nodes,
                   compromised_nodes, overall_confidence, learning_history,
                   defVars, runVars, expVars>>

InstanceInit ==
    /\ mode = "instance"
    /\ pc = "run"
    /\ script = << >>
    /\ Constructed(Path4, UniformVulnerabilities(Path4), 100, TRUE, 65)
    /\ RunnerIdle(0)
    /\ NoExperiment

InstanceNext == CreateInstance \/ AssignInstanceField

SpecInstance == InstanceInit /\ [][InstanceNext]_vars

----------------------------------------------------------------------------
(* A fresh CognitiveAttacker that learns a run of instances with confidence *)
(* 1.0 and then a run of instances with one lower confidence; the caller    *)
(* notes overall_confidence after every call.                               *)

MaxPoisoned == 25       \* poisoned learn calls made in a run

\* the lengths of the run of confidence-1.0 calls
NormalCounts == {1, 5, 19, 20, 21, 130}

\* the confidences of the calls still to make: n times 1.0, then c
PoisonScripts ==
    { [i \in 1..(n + MaxPoisoned) |-> IF i <= n THEN ConfScale ELSE c]
      : n \in NormalCounts, c \in {30, 50, 99} }

\* attacker.learn(situation, action, outcome, timestamp, confidence) with the
\* next confidence of the script
ScriptedLearn ==
    /\ mode = "poison"
    /\ script # << >>
    /\ LET now == current_time + 1
           learnt == AttackerLearn(learning_rate, memory, overall_confidence,
                                   learning_history, <<0, 0, 0, now \div 10>>,
                                   "SCAN", 20, now, Head(script))
       IN /\ current_time' = now
          /\ memory' = learnt.memory
          /\ overall_confidence' = learnt.overall_confidence
          /\ learning_history' = learnt.learning_history
          /\ attacker_confidence_trajectory' =
                 Append(attacker_confidence_trajectory, learnt.overall_confidence)
          /\ last' = [call |-> "learn", confidence |-> Head(script),
                      at_append |-> learnt.at_append, pruned |-> learnt.pruned,
                      before |-> [overall_confidence |-> overall_confidence,
                                  size |-> Len(memory)]]
    /\ script' = Tail(script)
    /\ UNCHANGED <<mode, pc, network, node_states, vulnerabilities, metrics,
                   learning_rate, known_nodes, compromised_nodes, defVars,
                   max_steps_per_episode, step_count, episode_reward, actions,
                   rewards_per_step, expVars>>

PoisonInit ==
    /\ mode = "poison"
    /\ pc = "run"
    /\ script \in PoisonScripts
    /\ Constructed(Path4, UniformVulnerabilities(Path4), 100, TRUE, 65)
    /\ RunnerIdle(0)
    /\ NoExperiment

PoisonNext == ScriptedLearn

SpecPoison == PoisonInit /\ [][PoisonNext]_vars

----------------------------------------------------------------------------
(* Network topologies (environment/topology_generators.py, the network      *)
(* construction of environment/network.py and network_enhanced.py).  A      *)
(* graph is [nodes, edges] with edges a set of two-element sets of nodes.   *)

MaxRandomNodes == 4     \* num_nodes of the random graphs

\* the two-element subsets of S
NodePairs(S) == { {a, b} : a \in S, b \in S } \ { {a} : a \in S }

RECURSIVE SubsetsUpTo(_, _)
\* the subsets of S with at most k elements: what k draws from S can add
SubsetsUpTo(S, k) ==
    IF k = 0 THEN {{}}
    ELSE LET smaller == SubsetsUpTo(S, k - 1)
         IN smaller \cup { T \cup {x} : T \in smaller, x \in S }

\* G.neighbors(v)
Adjacent(g, v) == {w \in g.nodes : {v, w} \in g.edges}

RECURSIVE ReachFrom(_, _, _)
\* the nodes reached from `frontier`, `seen` being reached already
ReachFrom(g, seen, frontier) ==
    IF frontier = {} THEN seen
    ELSE LET next == (UNION {Adjacent(g, v) : v \in frontier}) \ seen
         IN ReachFrom(g, seen \cup next, next)

\* the connected component of v
ComponentOf(g, v) == ReachFrom(g, {v}, {v})

\* nx.is_connected(G), for a graph with at least one node
IsConnected(g) ==
    /\ g.nodes # {}
    /\ \A v \in g.nodes : ComponentOf(g, v) = g.nodes

RECURSIVE ComponentsFrom(_, _)
\* list(nx.connected_components(G)): the components in the order of their
\* first node
ComponentsFrom(g, remaining) ==
    IF remaining = {} THEN << >>
    ELSE LET v == CHOOSE x \in remaining : \A y \in remaining : x <= y
             c == ComponentOf(g, v)
         IN <<c>> \o ComponentsFrom(g, remaining \ c)

\* a bridging that joins only the first two components
EnsureConnectedFirstPair(g) ==
    IF IsConnected(g) THEN {g}
    ELSE LET components == ComponentsFrom(g, g.nodes)
         IN { [g EXCEPT !.edges = @ \cup {{first[1], first[2]}}]
              : first \in { f \in [1..Len(components) -> g.nodes] :
                              \A i \in 1..Len(components) : f[i] \in components[i] } }

\* the `if not nx.is_connected(G)` block: component i is joined to component
\* i + 1 by an edge between list(component)[0] of each; which element of a
\* set comes first is left open
EnsureConnected(g) ==
    IF IsConnected(g) THEN {g}
    ELSE LET components == ComponentsFrom(g, g.nodes)
         IN { [g EXCEPT !.edges =
                   @ \cup { {first[i], first[i + 1]} : i \in 1..(Len(components) - 1) }]
              : first \in { f \in [1..Len(components) -> g.nodes] :
                              \A i \in 1..Len(components) : f[i] \in components[i] } }

\* nx.erdos_renyi_graph(n, p), p in hundredths: every pair is an edge with
\* probability p
ErdosRenyiGraph(n, p) ==
    { [nodes |-> 0..(n - 1), edges |-> E]
      : E \in { F \in SUBSET NodePairs(0..(n - 1)) :
                   /\ p = 0 => F = {}
                   /\ p >= 100 => F = NodePairs(0..(n - 1)) } }

RECURSIVE AttachFrom(_, _, _, _)
\* nodes k..n-1 are added in turn, each joined to m distinct earlier nodes
AttachFrom(g, k, n, m) ==
    IF k >= n THEN {g}
    ELSE UNION { AttachFrom([nodes |-> g.nodes \cup {k},
                             edges |-> g.edges \cup {{k, t} : t \in targets}],
                            k + 1, n, m)
                 : targets \in {T \in SUBSET g.nodes : Cardinality(T) = m} }

\* nx.barabasi_albert_graph(n, m), for 1 <= m < n: a star on nodes 0..m, then
\* preferential attachment of the other nodes
BarabasiAlbertGraph(n, m) ==
    AttachFrom([nodes |-> 0..m, edges |-> {{0, t} : t \in 1..m}], m + 1, n, m)

\* the numbers of hubs a peripheral node is joined to,
\* min(len(hub_nodes), np.random.randint(1, 4))
HubConnectionCounts(num_hubs) == {Min(num_hubs, r) : r \in 1..3}

\* generate_hub_spoke_topology(num_nodes, hub_ratio, connectivity), ratios in
\* hundredths
HubSpokeTopology(num_nodes, hub_ratio, connectivity) ==
    LET num_hubs == Max(1, (num_nodes * hub_ratio) \div 100)
        hub_nodes == 0..(num_hubs - 1)
        peripheral_nodes == num_hubs..(num_nodes - 1)
        core == NodePairs(hub_nodes)
        num_additional_edges == (connectivity * Cardinality(peripheral_nodes) * 2) \div 100
        spokes == { f \in [peripheral_nodes -> SUBSET hub_nodes] :
                      \A v \in peripheral_nodes :
                          Cardinality(f[v]) \in HubConnectionCounts(num_hubs) }
        additional == SubsetsUpTo(NodePairs(peripheral_nodes), num_additional_edges)
    IN { LET edges == core
                      \cup UNION {{{v, h} : h \in connected[v]} : v \in peripheral_nodes}
                      \cup extra
         IN \* add_edge also adds the end points of the edge to the graph
            [nodes |-> (0..(num_nodes - 1)) \cup UNION edges, edges |-> edges]
         : connected \in spokes, extra \in additional }

\* number of nodes of nx.balanced_tree(r, h)
RECURSIVE TreeSize(_, _)
TreeSize(r, h) == IF h = 0 THEN 1 ELSE 1 + r * TreeSize(r, h - 1)

\* nx.balanced_tree(r, h): node c > 0 has the parent (c - 1) // r
BalancedTree(r, h) ==
    LET size == TreeSize(r, h)
    IN [nodes |-> 0..(size - 1),
        edges |-> { {(c - 1) \div r, c} : c \in 1..(size - 1) }]

\* a count of added nodes that is not capped by the leaves' capacity
NodesToAddUncapped(num_nodes, current_nodes, leaves, branching_factor) ==
    num_nodes - current_nodes

\* nodes_to_add of generate_hierarchical_topology
NodesToAdd(num_nodes, current_nodes, leaves, branching_factor) ==
    Min(num_nodes - current_nodes, leaves * branching_factor)

RECURSIVE LevelsFrom(_, _, _, _)
\* nx.single_source_shortest_path_length: node -> distance from the source
LevelsFrom(g, levels, frontier, d) ==
    IF frontier = {} THEN levels
    ELSE LET next == (UNION {Adjacent(g, v) : v \in frontier}) \ DOMAIN levels
         IN LevelsFrom(g, levels @@ [v \in next |-> d + 1], next, d + 1)

\* generate_hierarchical_topology(num_nodes, branching_factor, depth)
HierarchicalTopology(num_nodes, branching_factor, depth) ==
    LET tree == BalancedTree(branching_factor, depth - 1)
        current_nodes == Cardinality(tree.nodes)
        leaf_nodes == {n \in tree.nodes : Cardinality(Adjacent(tree, n)) = 1}
        nodes_to_add == IF current_nodes < num_nodes
                        THEN NodesToAdd(num_nodes, current_nodes,
                                        Cardinality(leaf_nodes), branching_factor)
                        ELSE 0
        added == current_nodes..(current_nodes + nodes_to_add - 1)
    IN UNION {
         LET grown == [nodes |-> tree.nodes \cup added,
                       edges |-> tree.edges \cup {{parent[n], n} : n \in added}]
             levels == LevelsFrom(grown, [v \in {0} |-> 0], {0}, 0)
             num_cross_edges == Max(1, (Cardinality(grown.nodes) * 10) \div 100)
             eligible == { e \in NodePairs(grown.nodes) :
                             /\ e \notin grown.edges
                             /\ \E a \in e, b \in e : levels[a] # levels[b] }
         IN { [grown EXCEPT !.edges = @ \cup cross]
              : cross \in SubsetsUpTo(eligible, num_cross_edges) }
         : parent \in [added -> leaf_nodes] }

\* the arguments the generators are called with:
\* <<num_nodes, hub_ratio, connectivity>>
HubSpokeArguments ==
    { <<n, r, c>> : n \in 1..6, r \in {10, 50}, c \in {0, 30} }
    \cup { <<10, 10, 10>> }

\* <<num_nodes, branching_factor, depth>>
HierarchicalArguments ==
    { <<n, 2, 2>> : n \in 1..8 } \cup { <<n, 3, 2>> : n \in 1..8 }
    \cup { <<n, 2, 3>> : n \in 1..9 }

\* generate_hub_spoke_topology called on its own
GenerateHubSpoke ==
    /\ mode = "topology"
    /\ pc = "idle"
    /\ pc' = "called"
    /\ \E a \in HubSpokeArguments :
       \E g \in HubSpokeTopology(a[1], a[2], a[3]) :
          last' = [call |-> "generate_hub_spoke_topology", kind |-> "hub_spoke",
                   num_nodes |-> a[1], branching_factor |-> 0, depth |-> 0,
                   graph |-> g]
    /\ UNCHANGED <<mode, script, envVars, attVars, defVars, runVars, expVars>>

\* generate_hierarchical_topology called on its own
GenerateHierarchical ==
    /\ mode = "topology"
    /\ pc = "idle"
    /\ pc' = "called"
    /\ \E a \in HierarchicalArguments :
       \E g \in HierarchicalTopology(a[1], a[2], a[3]) :
          last' = [call |-> "generate_hierarchical_topology", kind |-> "hierarchical",
                   num_nodes |-> a[1], branching_factor |-> a[2], depth |-> a[3],
                   graph |-> g]
    /\ UNCHANGED <<mode, script, envVars, attVars, defVars, runVars, expVars>>

\* the network of ConfigurableNetworkEnvironment.__init__ and of
\* EnhancedNetworkEnvironment._generate_topology for the random kinds: the
\* random graph, then the bridging of its components
GenerateRandom ==
    /\ mode = "topology"
    /\ pc = "idle"
    /\ pc' = "called"
    /\ \E n \in 1..MaxRandomNodes, connectivity \in {0, 60, 100}, kind \in {"random", "scale_free"} :
       \E raw \in IF kind = "random"
                  THEN ErdosRenyiGraph(n, connectivity)
                  ELSE IF n >= 2
                       THEN BarabasiAlbertGraph(n, Max(1, (n * connectivity) \div 1000))
                       ELSE {} :
       \E g \in EnsureConnected(raw) :
          last' = [call |-> "_generate_topology", kind |-> kind,
                   num_nodes |-> n, branching_factor |-> 0, depth |-> 0,
                   raw |-> raw, graph |-> g]
    /\ UNCHANGED <<mode, script, envVars, attVars, defVars, runVars, expVars>>

\* NetworkEnvironment._generate_network: random graphs are drawn until one
\* is connected
GenerateNetwork ==
    /\ mode = "topology"
    /\ pc = "idle"
    /\ pc' = "called"
    /\ \E n \in 1..MaxRandomNodes :
       \E g \in {r \in ErdosRenyiGraph(n, 60) : IsConnected(r)} :
          last' = [call |-> "_generate_network", kind |-> "random",
                   num_nodes |-> n, branching_factor |-> 0, depth |-> 0,
                   graph |-> g]
    /\ UNCHANGED <<mode, script, envVars, attVars, defVars, runVars, expVars>>

TopologyInit ==
    /\ mode = "topology"
    /\ pc = "idle"
    /\ script = << >>
    /\ Constructed(Path4, UniformVulnerabilities(Path4), 100, TRUE, 65)
    /\ RunnerIdle(0)
    /\ NoExperiment

TopologyNext ==
    \/ GenerateHubSpoke
    \/ GenerateHierarchical
    \/ GenerateRandom
    \/ GenerateNetwork

SpecTopology == TopologyInit /\ [][TopologyNext]_vars

----------------------------------------------------------------------------
(* Properties *)

\* the configurations the termination of the loop is checked on
TerminationConfigs ==
    { c \in EpisodeConfigs :
        /\ c.network = Path4
        /\ c.max_steps_per_episode \in {1, 60}
        /\ c.learning_rate = 100 }

TerminationInit ==
    /\ mode = "episode"
    /\ pc = "constructed"
    /\ script = << >>
    /\ \E c \in TerminationConfigs :
          /\ Constructed(c.network, UniformVulnerabilities(c.network),
                         c.learning_rate, c.use_acp, c.acp_strength)
          /\ RunnerIdle(c.max_steps_per_episode)
          /\ NoExperiment

\* the episode loop under the scheduling of a sequential program: a step
\* that can be taken is taken
FairSpec == TerminationInit /\ [][Next]_vars /\ WF_vars(Next)

\* C1: the ACP defender's select_action never returns RestoreNode, so at
\* every point of an episode its action_history has no RestoreNode entry.
C1_AcpNeverRestores ==
    use_acp =>
        /\ \A i \in 1..Len(action_history) : action_history[i] # "RESTORE_NODE"
        /\ last.call = "step" => last.defender_action # "RESTORE_NODE"

C1_Witness ==
    /\ use_acp
    /\ pc = "done"
    /\ Len(action_history) >= 4
    /\ CountState(node_states, "COMPROMISED") >= 1

\* C3: the episode loop never makes more than max_steps_per_episode + 1
\* iterations, it does not continue after a step that reported done, and
\* every episode reaches its return.
C3_EpisodeTerminates ==
    /\ [](step_count <= max_steps_per_episode + 1)
    /\ []((pc = "run" /\ last.call = "step") => ~last.done)
    /\ <>(pc = "returned")

C3_Witness ==
    /\ pc = "done"
    /\ last.call = "step"
    /\ last.done
    /\ CountState(node_states, "COMPROMISED") * 10 > network.num_nodes * 7
    /\ step_count < max_steps_per_episode + 1

\* C4 (as claimed): the step count a returned episode reports is between 1
\* and max_steps_per_episode.
C4_StepsWithinMax ==
    pc = "returned" => (1 <= last.steps /\ last.steps <= max_steps_per_episode)

\* C5: every step leaves the attacker's known_nodes and compromised_nodes
\* supersets of what they were, whatever the defender and the attacker did.
C5_AttackerSetsGrow ==
    [][known_nodes \subseteq known_nodes'
       /\ compromised_nodes \subseteq compromised_nodes']_vars

C5_Witness ==
    /\ last.call = "step"
    /\ last.defender_action \in {"ISOLATE", "RESTORE_NODE"}
    /\ last.defender_outcome.success
    /\ \E n \in compromised_nodes : node_states[n] # "COMPROMISED"
    /\ last.before.compromised_nodes \subseteq compromised_nodes
    /\ last.before.known_nodes # {}

\* C6: every node's vulnerability stays within [0, 1] after reset and after
\* any sequence of Patch, RestoreNode and attacker actions.
C6_VulnerabilityBounds ==
    \A n \in DOMAIN vulnerabilities :
        0 <= vulnerabilities[n] /\ vulnerabilities[n] <= VulnScale

C6_Witness ==
    /\ last.call = "step"
    /\ last.defender_action = "RESTORE_NODE"
    /\ last.defender_outcome.success
    /\ \E n \in DOMAIN node_states : node_states[n] = "PATCHED"

\* C7 (as claimed): overall_confidence stays within [0, 1] after every learn
\* call of the engine, for every attacker the runner constructs.
C7_ConfidenceBounds ==
    0 <= overall_confidence /\ overall_confidence <= ConfScale

\* C8: after every learn call the memory holds at most 150 instances, and
\* at most 100 after a call that pruned.
C8_MemoryCap ==
    /\ Len(memory) <= MemoryCap
    /\ (last.call = "learn" /\ last.pruned) => Len(memory) <= MemoryKeep

C8_Witness ==
    /\ last.call = "learn"
    /\ last.pruned
    /\ last.at_append > MemoryCap

\* C9: the mapping returned by deploy_acp_deception has no key in
\* attacker_knowledge and only keys taken from the target list.
C9_DeceptionTargeting ==
    last.call = "deploy" =>
        /\ DOMAIN last.result \cap last.attacker_knowledge = {}
        /\ DOMAIN last.result \subseteq Range(last.target_nodes)

C9_Witness ==
    /\ last.call = "deploy"
    /\ use_acp
    /\ DOMAIN last.result # {}
    /\ Range(last.target_nodes) \cap last.attacker_knowledge # {}

\* C10: in a step the defender acts first and the attacker's action is
\* resolved on what the defender left: a node the defender made Honeypot,
\* Patched or Isolated in the step is not compromised in that step; the
\* instance learnt carries this step's outcome, and reward and done are
\* computed on the node states at the end of the step.
C10_PhaseOrder ==
    last.call = "step" =>
        /\ last.defender_action \in {"PATCH", "ISOLATE", "DEPLOY_HONEYPOT"} =>
              \A n \in last.defender_target :
                  /\ n \notin last.attacker_target
                  /\ node_states[n] \in {"PATCHED", "ISOLATED", "HONEYPOT"}
        /\ memory[Len(memory)].timestamp = current_time
        /\ memory[Len(memory)].outcome = last.attacker_outcome.reward
        /\ last.defender_reward =
              CalculateDefenderReward(last.defender_action, last.defender_outcome,
                                      node_states)
        /\ last.done = CheckTermination(node_states, current_time)

C10_Witness ==
    /\ last.call = "step"
    /\ last.defender_action \in {"PATCH", "DEPLOY_HONEYPOT"}
    /\ last.defender_target # {}
    /\ last.defender_target \subseteq last.before.known_nodes
    /\ last.attacker_action = "EXPLOIT"
    /\ ~last.attacker_outcome.success

\* the conditions under which a configuration is invalid
InvalidConfiguration(c) ==
    \/ c.acp_strength < 0 \/ c.acp_strength > 100
    \/ c.connectivity < 0 \/ c.connectivity > 100
    \/ c.confidence_level \notin {90, 95, 99}
    \/ c.num_nodes < 10
    \/ c.num_episodes < 1
    \/ c.bootstrap_samples < 100

\* C11: constructing a SimulationConfig raises exactly when a field is out
\* of its range (the boundary values are accepted), and a configuration
\* object that exists is never an invalid one.
C11_ConfigValidation ==
    /\ last.call = "SimulationConfig" =>
          (last.raised <=> InvalidConfiguration(last.arguments))
    /\ config # NoConfig => ~InvalidConfiguration(config)

C11_Witness ==
    /\ last.call = "SimulationConfig"
    /\ ~last.raised
    /\ config = last.arguments
    /\ config.acp_strength = 100
    /\ config.connectivity = 0
    /\ config.num_nodes = 10
    /\ config.num_episodes = 1
    /\ config.bootstrap_samples = 100

\* C12: the Pessimistic defender never selects AcpDeception or
\* DeployHoneypot, and its deploy_acp_deception returns the empty mapping and
\* leaves the defender's deception bookkeeping and the network as they were.
C12_PessimisticNoDeception ==
    ~use_acp =>
        /\ \A i \in 1..Len(action_history) :
              action_history[i] \notin {"ACP_DECEPTION", "DEPLOY_HONEYPOT"}
        /\ last.call = "select_action" =>
              last.action \notin {"ACP_DECEPTION", "DEPLOY_HONEYPOT"}
        /\ last.call = "deploy" => last.result = << >>
        /\ deception_attempts = 0
        /\ deception_successes = 0
        /\ deception_history = << >>
        /\ \A n \in DOMAIN node_states :
              /\ node_states[n] = "CLEAN"
              /\ defender_node_states[n] = "CLEAN"
              /\ vulnerabilities[n] = UniformVulnerabilities(network)[n]

C12_Witness ==
    /\ ~use_acp
    /\ last.call = "deploy"
    /\ \E i \in 1..Len(last.target_nodes) :
          last.target_nodes[i] \notin last.attacker_knowledge
    /\ acp_strength = 100
    /\ Len(action_history) >= 1

\* C13: whatever the number of workers and the order in which they take and
\* finish their tasks, run_experiment_parallel returns the ACP and
\* Traditional reward arrays that the sequential run_experiment returned for
\* the same configuration, value by value in episode order.
C13_ParallelEqualsSequential ==
    (pc = "returned" /\ last.call = "run_experiment_parallel") =>
        /\ last.acp_rewards = Rewards(acp_results)
        /\ last.traditional_rewards = Rewards(traditional_results)

C13_Witness ==
    /\ pc = "returned"
    /\ last.call = "run_experiment_parallel"
    /\ last.n_workers = 2
    /\ config.num_episodes >= 4
    /\ pool.completed[1] = 2
    /\ pool.completed[Len(pool.completed)] = 1

\* C14: run_experiment runs the episode ids 0..N-1 once each, the even ids
\* with the ACP defender and the odd ids with the Traditional defender, and
\* returns ceil(N/2) ACP rewards and floor(N/2) Traditional rewards.
C14_Alternation ==
    mode = "experiment" =>
        /\ \A i \in 1..Len(acp_results) :
              /\ acp_results[i].episode_id = 2 * (i - 1)
              /\ acp_results[i].use_acp
        /\ \A i \in 1..Len(traditional_results) :
              /\ traditional_results[i].episode_id = 2 * (i - 1) + 1
              /\ ~traditional_results[i].use_acp
        /\ Len(acp_results) + Len(traditional_results) = episode_id
        /\ episode_id <= config.num_episodes
        /\ last.call = "run_experiment" =>
              /\ Len(last.acp_rewards) = (config.num_episodes + 1) \div 2
              /\ Len(last.traditional_rewards) = config.num_episodes \div 2

C14_Witness ==
    /\ last.call = "run_experiment"
    /\ config.num_episodes = 5
    /\ Len(last.acp_rewards) = 3
    /\ Len(last.traditional_rewards) = 2

\* C15 (as claimed): an assignment to a field of an existing Instance is
\* rejected with an error and leaves the instance as it was.
C15_InstanceImmutable ==
    last.call = "setattr" =>
        /\ last.raised
        /\ memory[last.index] = last.before

\* the number of learn calls made with confidence 1.0
NormalCalls ==
    Cardinality({i \in 1..Len(learning_history) :
                    learning_history[i].confidence = ConfScale})

\* C16: once a fresh attacker has learnt n >= 1 instances with confidence
\* 1.0 and then m >= 1 instances with a confidence c < 1, its
\* overall_confidence is strictly lower than it was after the n-th learn.
C16_PoisoningLowersConfidence ==
    (mode = "poison" /\ Len(learning_history) > NormalCalls) =>
        overall_confidence < attacker_confidence_trajectory[NormalCalls]

C16_Witness ==
    /\ mode = "poison"
    /\ NormalCalls = 5
    /\ Len(learning_history) = 10
    /\ last.confidence = 30
    /\ attacker_confidence_trajectory[5] = ConfScale

\* C17: with an empty memory select_action returns Scan, so the first
\* attacker action of every episode is Scan.
C17_EmptyMemoryScans ==
    /\ memory = << >> => AttackerSelectAction(memory) = {"SCAN"}
    /\ (last.call = "step" /\ Len(learning_history) = 1) =>
          last.attacker_action = "SCAN"

C17_Witness ==
    /\ last.call = "step"
    /\ step_count = 1
    /\ Len(learning_history) = 1
    /\ last.attacker_action = "SCAN"
    /\ last.attacker_outcome.success

\* C18: every generated topology is connected: the hub-spoke and the
\* hierarchical generator return connected graphs, and the bridging step
\* leaves every random graph connected.
C18_TopologyConnected ==
    mode = "topology" /\ pc = "called" => IsConnected(last.graph)

C18_Witness ==
    /\ mode = "topology"
    /\ pc = "called"
    /\ last.call = "_generate_topology"
    /\ last.kind = "random"
    /\ Len(ComponentsFrom(last.raw, last.raw.nodes)) >= 3
    /\ IsConnected(last.graph)

HierarchicalNodeCount(num_nodes, branching_factor, depth) ==
    LET tree == TreeSize(branching_factor, depth - 1)
        leaves == IF depth <= 1 THEN 0
                  ELSE tree - TreeSize(branching_factor, depth - 2)
    IN Max(tree, Min(num_nodes, tree + leaves * branching_factor))

C20_MemoryPoisoningRule ==
    mode = "engine" /\ last.call = "step" =>
        LET deceived == /\ last.defender_action = "ACP_DECEPTION"
                        /\ DOMAIN last.deception_results # {}
            poisoned == /\ 3 * ConfScale <= 10 * last.learning_confidence
                        /\ 10 * last.learning_confidence <= 5 * ConfScale
        IN /\ poisoned <=> deceived
           /\ ~deceived => last.learning_confidence = ConfScale

C20_Witness ==
    /\ mode = "engine"
    /\ last.call = "step"
    /\ last.defender_action = "ACP_DECEPTION"
    /\ Cardinality(DOMAIN last.deception_results) = 1
    /\ 10 * last.learning_confidence = 3 * ConfScale

\* the nodes of the network that are Compromised in the node states ns
CompromisedIn(ns) == {n \in DOMAIN ns : ns[n] = "COMPROMISED"}

\* C21: when the pessimistic defender's roll falls in the Isolate-or-Patch
\* tier, select_action returns Isolate if some node of the network is
\* Compromised at that time, and Patch only if none is.
C21_IsolatePreference ==
    mode = "episode" /\ last.call = "step" /\ ~use_acp /\ roll = 2 =>
        last.defender_action =
            IF CompromisedIn(last.before.node_states) # {} THEN "ISOLATE" ELSE "PATCH"

\* C22: the ACP defender returns Monitor only when no node of the network is
\* Compromised; when some node is Compromised and neither the deception nor
\* the honeypot arm is taken, it returns Patch or Isolate.
C22_TargetedResponse ==
    mode = "episode" /\ last.call = "step" /\ use_acp =>
        /\ last.defender_action = "MONITOR" =>
               CompromisedIn(last.before.node_states) = {}
        /\ CompromisedIn(last.before.node_states) # {} /\ roll \notin {1, 2} =>
               last.defender_action \in {"PATCH", "ISOLATE"}

\* C23: in every iteration of an episode with the ACP defender, the action
\* selected is AcpDeception only if more than 5 nodes are unknown to the
\* attacker and DeployHoneypot only if more than 3 are; the attacker's
\* known_nodes never shrinks, so once num_nodes - 3 nodes are known neither
\* action is selected again.
C23_Thresholds ==
    [][ mode = "episode" /\ use_acp /\ step_count' = step_count + 1 =>
          LET unknown == Cardinality(Nodes(network) \ known_nodes)
          IN /\ last'.defender_action = "ACP_DECEPTION" => unknown > 5
             /\ last'.defender_action = "DEPLOY_HONEYPOT" => unknown > 3
             /\ known_nodes \subseteq known_nodes' ]_vars

C23_Witness ==
    /\ mode = "episode"
    /\ use_acp
    /\ last.call = "step"
    /\ \E i \in 1..Len(action_history) : action_history[i] = "DEPLOY_HONEYPOT"
    /\ Cardinality(last.before.known_nodes) >= network.num_nodes - 3
    /\ roll \in {3, 4}

\* C24: the defender reward of a step is -cost(action) + 0.4 per Clean node
\* + the action's bonus, granted only if the action succeeded (Patch 4,
\* Isolate 10, DeployHoneypot 5, AcpDeception 15 per deception record of the
\* step, RestoreNode 12, Monitor 1) - 2.0 per Compromised node, counted on the
\* node states at the end of the step.  Rewards are in tenths.
C24_DefenderReward ==
    mode = "engine" /\ last.call = "step" =>
        last.defender_reward =
            -action_costs[last.defender_action]
            + 4 * Cardinality({n \in Nodes(network) : node_states[n] = "CLEAN"})
            + (IF last.defender_outcome.success
               THEN CASE last.defender_action = "PATCH" -> 40
                      [] last.defender_action = "ISOLATE" -> 100
                      [] last.defender_action = "DEPLOY_HONEYPOT" -> 50
                      [] last.defender_action = "ACP_DECEPTION" ->
                             150 * Cardinality(DOMAIN last.deception_results)
                      [] last.defender_action = "RESTORE_NODE" -> 120
                      [] last.defender_action = "MONITOR" -> 10
               ELSE 0)
            - 20 * Cardinality(CompromisedIn(node_states))

C24_Witness ==
    /\ mode = "engine"
    /\ last.call = "step"
    /\ last.defender_action = "PATCH"
    /\ last.defender_outcome.success
    /\ last.attacker_action = "EXPLOIT"
    /\ last.attacker_outcome.success
    /\ CompromisedIn(node_states) # CompromisedIn(last.before.node_states)

\* C25: the attacker reward of a step is -cost(action), plus the outcome
\* reward only if the action succeeded (Scan 2, Exploit 10, Propagate 5); a
\* failed action, a failed Exploit included, yields exactly -cost(action).
C25_AttackerReward ==
    mode = "engine" /\ last.call = "step" =>
        last.attacker_reward =
            -action_costs[last.attacker_action]
            + (IF last.attacker_outcome.success
               THEN CASE last.attacker_action = "SCAN" -> 20
                      [] last.attacker_action = "EXPLOIT" -> 100
                      [] last.attacker_action = "PROPAGATE" -> 50
               ELSE 0)

C25_Witness ==
    /\ mode = "engine"
    /\ last.call = "step"
    /\ last.attacker_action = "EXPLOIT"
    /\ ~last.attacker_outcome.success
    /\ last.attacker_outcome.reward = -10
    /\ last.attacker_reward = -20

DefenderPreconditionUnmet(action, ns, vul) ==
    CASE action = "PATCH" ->
             ~\E n \in DOMAIN ns : ns[n] = "CLEAN" /\ 2 * vul[n] > VulnScale
      [] action \in {"ISOLATE", "RESTORE_NODE"} -> CompromisedIn(ns) = {}
      [] action = "DEPLOY_HONEYPOT" -> ~\E n \in DOMAIN ns : ns[n] = "CLEAN"
      [] OTHER -> FALSE

\* the precondition of an attacker action is unmet: no known Clean node to
\* exploit, or no compromised source with a Clean neighbour to propagate to
AttackerPreconditionUnmet(action, g, ns, known, comp) ==
    CASE action = "EXPLOIT" -> ~\E n \in known : ns[n] = "CLEAN"
      [] action = "PROPAGATE" ->
             ~\E source \in comp : \E n \in Neighbors(g, source) :
                 n \notin comp /\ ns[n] = "CLEAN"
      [] OTHER -> FALSE

\* C27: an action whose precondition is unmet is resolved as a no-op.  A
\* defender action (Patch, Isolate, RestoreNode, DeployHoneypot) with unmet
\* precondition leaves node states and vulnerabilities as they were, reports
\* success = false and earns no bonus; an attacker action (Exploit,
\* Propagate) with unmet precondition leaves the node states the defender
\* phase handed over and the attacker's known and compromised sets as they
\* were, reports success = false and earns exactly -cost.
C27_NoOpResolution ==
    [][ mode = "engine" =>
          /\ DefenderPreconditionUnmet(last'.defender_action, node_states,
                                       vulnerabilities) =>
                /\ ~last'.defender_outcome.success
                /\ last'.defended.node_states = node_states
                /\ last'.defended.vulnerabilities = vulnerabilities
                /\ vulnerabilities' = vulnerabilities
                /\ last'.defender_reward =
                       -action_costs[last'.defender_action]
                       + 4 * Cardinality({n \in Nodes(network) : node_states'[n] = "CLEAN"})
                       - 20 * Cardinality(CompromisedIn(node_states'))
          /\ AttackerPreconditionUnmet(last'.attacker_action, network,
                                       last'.defended.node_states, known_nodes,
                                       compromised_nodes) =>
                /\ ~last'.attacker_outcome.success
                /\ node_states' = last'.defended.node_states
                /\ known_nodes' = known_nodes
                /\ compromised_nodes' = compromised_nodes
                /\ last'.attacker_reward = -action_costs[last'.attacker_action] ]_vars

C27_Witness ==
    /\ mode = "engine"
    /\ last.call = "step"
    /\ last.defender_action = "ISOLATE"
    /\ last.attacker_action = "PROPAGATE"
    /\ DefenderPreconditionUnmet("ISOLATE", last.before.node_states, vulnerabilities)
    /\ AttackerPreconditionUnmet("PROPAGATE", network, last.defended.node_states,
                                 last.before.known_nodes,
                                 last.before.compromised_nodes)
    /\ last.before.known_nodes # {}
    /\ node_states = last.before.node_states

\* C28: a step() call with an unrecognized action raises before it advances
\* time, executes an agent's action or adds an instance to the attacker's
\* memory: the call that raises leaves the episode state as it was.
C28_RaisesImmediately ==
    [][ mode = "contract" /\ pc' = "raised" =>
          /\ current_time' = current_time
          /\ node_states' = node_states
          /\ vulnerabilities' = vulnerabilities
          /\ known_nodes' = known_nodes
          /\ compromised_nodes' = compromised_nodes
          /\ memory' = memory ]_vars

\* C29: RestoreNode executed with k >= 1 Compromised nodes sets exactly
\* min(3, k) of them to Clean, each with a newly sampled vulnerability in
\* [0, 1], and changes the state and the vulnerability of no other node.
C29_RestoreFrame ==
    [][ /\ mode = "engine"
        /\ last'.defender_action = "RESTORE_NODE"
        /\ CompromisedIn(node_states) # {}
        =>
        LET k == Cardinality(CompromisedIn(node_states))
            after == last'.defended
            restored == {n \in CompromisedIn(node_states) :
                           after.node_states[n] = "CLEAN"}
        IN /\ Cardinality(restored) = IF k < 3 THEN k ELSE 3
           /\ \A n \in restored : after.vulnerabilities[n] \in 0..VulnScale
           /\ \A n \in Nodes(network) \ restored :
                 /\ after.node_states[n] = node_states[n]
                 /\ after.vulnerabilities[n] = vulnerabilities[n] ]_vars

C29_Witness ==
    /\ mode = "engine"
    /\ last.call = "step"
    /\ last.defender_action = "RESTORE_NODE"
    /\ Cardinality(CompromisedIn(last.before.node_states)) = 4
    /\ Cardinality(last.defender_target) = 3
    /\ Cardinality(CompromisedIn(last.defended.node_states)) = 1

\* C30: within one step no node's state is changed twice: no node is changed
\* by the defender phase and then again by the attacker phase.
C30_SingleMutation ==
    mode = "engine" /\ last.call = "step" =>
        \A n \in Nodes(network) :
            ~ /\ last.defended.node_states[n] # last.before.node_states[n]
              /\ node_states[n] # last.defended.node_states[n]

\* C31: whenever Propagate compromises a node, that node was Clean and has a
\* neighbour whose state in the network is Compromised at that moment (the
\* source of the lateral movement is neither Isolated nor restored to Clean).
C31_PropagateFromCompromised ==
    /\ mode = "engine"
    /\ last.call = "step"
    /\ last.attacker_action = "PROPAGATE"
    /\ last.attacker_outcome.success
    => \A t \in last.attacker_target :
          /\ last.defended.node_states[t] = "CLEAN"
          /\ \E source \in Neighbors(network, t) :
                 last.defended.node_states[source] = "COMPROMISED"

\* the nodes joined by an edge to a node of S
AdjacentTo(g, S) == {w \in Nodes(g) : \E k \in S : {k, w} \in g.edges}

\* C32 (as claimed): a Scan with no known node succeeds and adds exactly one
\* node; a Scan with known nodes adds exactly one unknown neighbour of a
\* known node, with outcome reward 2.0, whenever some known node has an
\* unknown neighbour; no Scan adds more than one node or a node that is not
\* adjacent to a known node (the entry point excepted).
C32_ScanAsClaimed ==
    mode = "engine" /\ last.call = "step" /\ last.attacker_action = "SCAN" =>
        LET known == last.before.known_nodes
            added == known_nodes \ known
        IN /\ Cardinality(added) <= 1
           /\ known = {} => last.attacker_outcome.success /\ Cardinality(added) = 1
           /\ known # {} => added \subseteq AdjacentTo(network, known)
           /\ known # {} /\ AdjacentTo(network, known) \ known # {} =>
                 /\ Cardinality(added) = 1
                 /\ last.attacker_outcome.success
                 /\ last.attacker_outcome.reward = 20

\* C32 (amended): a Scan with known nodes scans from one known node drawn at
\* random: it adds exactly one unknown neighbour of a known node, with
\* success and outcome reward 2.0, when every known node has an unknown
\* neighbour; it adds nothing, with success = false and outcome reward 0,
\* when no known node has one, and either of the two otherwise.  It never
\* adds more than one node, and the outcome is a success with reward 2.0
\* exactly when a node was added.
C32_Scan ==
    mode = "engine" /\ last.call = "step" /\ last.attacker_action = "SCAN" =>
        LET known == last.before.known_nodes
            added == known_nodes \ known
        IN /\ Cardinality(added) <= 1
           /\ known = {} => last.attacker_outcome.success /\ Cardinality(added) = 1
           /\ known # {} => added \subseteq AdjacentTo(network, known)
           /\ last.attacker_outcome.success <=> Cardinality(added) = 1
           /\ last.attacker_outcome.reward = IF added # {} THEN 20 ELSE 0
           /\ known # {} /\ (\A k \in known : AdjacentTo(network, {k}) \ known # {}) =>
                 Cardinality(added) = 1
           /\ known # {} /\ AdjacentTo(network, known) \ known = {} => added = {}

C32_Witness ==
    /\ mode = "engine"
    /\ last.call = "step"
    /\ last.attacker_action = "SCAN"
    /\ last.before.known_nodes # {}
    /\ AdjacentTo(network, last.before.known_nodes) \ last.before.known_nodes # {}
    /\ known_nodes = last.before.known_nodes
    /\ ~last.attacker_outcome.success

\* C33: cognitive_latency_exploitations grows by exactly 1 in a step if and
\* only if the defender action was AcpDeception and at least one deception
\* record was produced, and is unchanged otherwise; it always equals the
\* length of the acp_deceptions list; a deception step targets at most 5
\* nodes, all unknown to the attacker.
C33_DeceptionMetric ==
    /\ [](mode = "episode" =>
             /\ metrics.cognitive_latency_exploitations = Len(metrics.acp_deceptions)
             /\ last.call = "step" =>
                   /\ Len(last.targets) <= 5
                   /\ \A i \in 1..Len(last.targets) :
                         last.targets[i] \notin last.before.known_nodes)
    /\ [][ mode = "episode" =>
             LET deceived == /\ step_count' = step_count + 1
                             /\ last'.defender_action = "ACP_DECEPTION"
                             /\ DOMAIN last'.deception_results # {}
             IN metrics'.cognitive_latency_exploitations =
                    metrics.cognitive_latency_exploitations
                    + (IF deceived THEN 1 ELSE 0) ]_vars

C33_Witness ==
    /\ mode = "episode"
    /\ last.call = "step"
    /\ last.defender_action = "ACP_DECEPTION"
    /\ Cardinality(Nodes(network) \ last.before.known_nodes) = 6
    /\ Len(last.targets) = 5
    /\ DOMAIN last.deception_results # {}
    /\ metrics.cognitive_latency_exploitations = 1

\* C34: the situation handed to learn in a step is the pre-step situation:
\* the attacker's known-node and compromised-node counts as they were before
\* the actions of the step, with the alert level and time bin of the
\* observation taken before them.
C34_PreStepSituation ==
    mode = "engine" /\ last.call = "step" =>
        last.situation = <<Cardinality(last.before.known_nodes),
                           Cardinality(last.before.compromised_nodes),
                           last.observation.alert_level,
                           last.observation.time \div 10>>

\* C35: in an episode on a ConfigurableNetworkEnvironment built with
\* vulnerability_distribution = 'uniform', every node has vulnerability 0.5
\* when the first step begins.
C35_ConfiguredDistribution ==
    mode = "episode" /\ pc = "run" /\ step_count = 0 =>
        \A n \in Nodes(network) : 2 * vulnerabilities[n] = VulnScale

\* the state changes a single phase of a step may make to a node
AllowedTransitions ==
    { <<"CLEAN", "COMPROMISED">>, <<"CLEAN", "PATCHED">>, <<"CLEAN", "HONEYPOT">>,
      <<"COMPROMISED", "ISOLATED">>, <<"COMPROMISED", "CLEAN">> }

\* from -> to is no change or an allowed change, for every node
PhaseAllowed(from, to) ==
    \A n \in DOMAIN from :
        from[n] # to[n] => <<from[n], to[n]>> \in AllowedTransitions

\* C36: Patched, Honeypot and Isolated are absorbing: no step changes the
\* state of a node in one of them (so such a node is never Compromised), and
\* the defender phase and the attacker phase of a step each change a node
\* only by Clean->Compromised, Clean->Patched, Clean->Honeypot,
\* Compromised->Isolated or Compromised->Clean.
C36_AbsorbingStates ==
    [][ mode = "engine" =>
          /\ \A n \in Nodes(network) :
                 node_states[n] \in {"PATCHED", "HONEYPOT", "ISOLATED"} =>
                     node_states'[n] = node_states[n]
          /\ last'.call = "step" =>
                 /\ last'.before.node_states = node_states
                 /\ PhaseAllowed(node_states, last'.defended.node_states)
                 /\ PhaseAllowed(last'.defended.node_states, node_states') ]_vars

C36_Witness ==
    /\ mode = "engine"
    /\ last.call = "step"
    /\ last.attacker_action \in {"EXPLOIT", "PROPAGATE"}
    /\ last.attacker_outcome.success
    /\ \E n \in last.before.known_nodes :
          /\ last.before.node_states[n] \in {"PATCHED", "HONEYPOT", "ISOLATED"}
          /\ node_states[n] = last.before.node_states[n]

\* C37: in every state of an episode, the nodes whose network state is
\* Compromised are among the attacker's compromised_nodes, which are among
\* the attacker's known_nodes.
C37_CompromisedKnown ==
    mode \in {"episode", "engine"} =>
        /\ CompromisedIn(node_states) \subseteq compromised_nodes
        /\ compromised_nodes \subseteq known_nodes

\* the converse inclusion fails: a node of compromised_nodes is no longer
\* Compromised in the network, while another node is
C37_Witness ==
    /\ mode = "engine"
    /\ last.call = "step"
    /\ CompromisedIn(node_states) # {}
    /\ compromised_nodes \ CompromisedIn(node_states) # {}

RECURSIVE SumOver(_, _)
SumOver(f, S) ==
    IF S = {} THEN 0
    ELSE LET x == CHOOSE y \in S : TRUE IN f[x] + SumOver(f, S \ {x})

\* C39: in every result of run_single_episode, steps = length of actions =
\* length of rewards_per_step = length of attacker_confidence_trajectory =
\* sum of action_counts = length of the defender's action_history = the
\* environment's current_time = number of instances in the attacker's memory;
\* total_reward is the sum of rewards_per_step and
\* final_attacker_confidence is the last trajectory entry.
C39_ResultConsistency ==
    mode = "episode" /\ pc = "returned" =>
        /\ last.call = "run_single_episode"
        /\ last.steps = Len(last.actions)
        /\ last.steps = Len(last.rewards_per_step)
        /\ last.steps = Len(last.attacker_confidence_trajectory)
        /\ last.steps = SumOver(last.action_counts, DOMAIN last.action_counts)
        /\ last.steps = Len(action_history)
        /\ last.steps = current_time
        /\ last.steps = Len(memory)
        /\ last.total_reward = SumSeq(last.rewards_per_step)
        /\ last.steps >= 1
        /\ last.final_attacker_confidence =
               last.attacker_confidence_trajectory[last.steps]

C39_Witness ==
    /\ mode = "episode"
    /\ pc = "returned"
    /\ last.call = "run_single_episode"
    /\ last.steps >= 3
    /\ Cardinality(DOMAIN last.action_counts) >= 2
    /\ Len(memory) = last.steps

\* C40: in an episode against the Pessimistic defender with the default
\* attacker (learning_rate 1.0), no step is ever poisoned: every stored
\* instance has confidence 1.0, cognitive_latency_exploitations stays 0, and
\* the attacker's overall_confidence equals 1.0 after every step.
C40_PessimisticNeverPoisons ==
    mode = "episode" /\ ~use_acp /\ learning_rate = ConfScale =>
        /\ \A i \in 1..Len(memory) : memory[i].confidence = ConfScale
        /\ metrics.cognitive_latency_exploitations = 0
        /\ metrics.acp_deceptions = << >>
        /\ overall_confidence = ConfScale
        /\ last.call = "step" =>
              /\ last.learning_confidence = ConfScale
              /\ DOMAIN last.deception_results = {}

C40_Witness ==
    /\ mode = "episode"
    /\ ~use_acp
    /\ learning_rate = ConfScale
    /\ last.call = "step"
    /\ Len(memory) >= 2
    /\ memory[Len(memory)].confidence = ConfScale
    /\ overall_confidence = ConfScale

====
